---------------------------- MODULE Spec2Model ----------------------------
(***************************************************************************)
(* The chess rules engine of mathm-chess: the board, the per-piece move    *)
(* generators, the threat oracle and Board::make_move, as a state machine  *)
(* whose steps are calls of make_move by a front end.                      *)
(***************************************************************************)
EXTENDS Integers, Sequences, FiniteSets, TLC

(***************************************************************************)
(* Bounds of the exploration.                                              *)
(***************************************************************************)
\* The number of board-changing make_move calls explored from a start board.
MaxPlies == 1

(***************************************************************************)
(* Colours, kinds, pieces, positions.                                      *)
(***************************************************************************)
Colors == {"White", "Black"}

Kinds == {"Pawn", "Rook", "Knight", "Bishop", "Queen", "King"}

\* Option::None of a piece kind (Move.promotion) and of a tile.
NoKind == "None"

None == [color |-> "None", kind |-> NoKind]

Piece(color, kind) == [color |-> color, kind |-> kind]

other(color) == IF color = "White" THEN "Black" ELSE "White"

\* tiles[7] holds White's pieces on the default board, tiles[0] Black's.
home_rank(color) == IF color = "White" THEN 7 ELSE 0

\* The rank delta towards the colour's own home rank.
backwards(color) == IF color = "White" THEN 1 ELSE -1

forwards(color) == -backwards(color)

\* A Position is file + 8 * rank; tiles[rank][file] is tiles[Position].
Positions == 0..63

\* Option::None of a Position.
NoPosition == -1

new_unchecked(file, rank) == rank * 8 + file

file(p) == p % 8

rank(p) == p \div 8

new_i8(f, r) == IF f \in 0..7 /\ r \in 0..7 THEN new_unchecked(f, r) ELSE NoPosition

abs(n) == IF n < 0 THEN -n ELSE n

signum(n) == IF n < 0 THEN -1 ELSE IF n > 0 THEN 1 ELSE 0

Max(a, b) == IF a < b THEN b ELSE a

(***************************************************************************)
(* Piece letters (piece.rs).                                               *)
(***************************************************************************)
Kind_from_name(name) ==
    CASE name \in {"p", "P"} -> "Pawn"
      [] name \in {"r", "R"} -> "Rook"
      [] name \in {"n", "N"} -> "Knight"
      [] name \in {"b", "B"} -> "Bishop"
      [] name \in {"q", "Q"} -> "Queen"
      [] name \in {"k", "K"} -> "King"
      [] OTHER -> "ParsingError"

is_ascii_uppercase(name) == name \in {"P", "R", "N", "B", "Q", "K"}

Piece_from_name(name) ==
    Piece(IF is_ascii_uppercase(name) THEN "White" ELSE "Black", Kind_from_name(name))

Digits == <<"1", "2", "3", "4", "5", "6", "7", "8">>

digit_value(c) == CHOOSE n \in 1..8 : Digits[n] = c

\* The placement loop storing the first rank read at rank index 7.
RECURSIVE fen_tiles_reversed(_, _, _, _, _)
fen_tiles_reversed(chars, i, rk, fl, tiles) ==
    IF i > Len(chars) THEN tiles
    ELSE LET c == chars[i] IN
         IF c = "/" THEN fen_tiles_reversed(chars, i + 1, rk + 1, 0, tiles)
         ELSE IF \E n \in 1..8 : Digits[n] = c
              THEN fen_tiles_reversed(chars, i + 1, rk, fl + digit_value(c), tiles)
              ELSE fen_tiles_reversed(chars, i + 1, rk, fl + 1,
                       [tiles EXCEPT ![new_unchecked(fl, 7 - rk)] = Piece_from_name(c)])

\* The placement loop of from_fen: a cursor (rank, file) over the characters.
RECURSIVE fen_tiles(_, _, _, _, _)
fen_tiles(chars, i, rk, fl, tiles) ==
    IF i > Len(chars) THEN tiles
    ELSE LET c == chars[i] IN
         IF c = "/" THEN fen_tiles(chars, i + 1, rk + 1, 0, tiles)
         ELSE IF \E n \in 1..8 : Digits[n] = c
              THEN fen_tiles(chars, i + 1, rk, fl + digit_value(c), tiles)
              ELSE fen_tiles(chars, i + 1, rk, fl + 1,
                             [tiles EXCEPT ![new_unchecked(fl, rk)] = Piece_from_name(c)])

EmptyTiles == [p \in Positions |-> None]

\* A Board value: the placement characters and the other five fields, parsed.
BoardOf(pieces, next, wk, wq, bk, bq, eps, halfmove, number) ==
    [tiles |-> fen_tiles(pieces, 1, 0, 0, EmptyTiles),
     next_to_move |-> next,
     can_castle_white_kingside |-> wk,
     can_castle_white_queenside |-> wq,
     can_castle_black_kingside |-> bk,
     can_castle_black_queenside |-> bq,
     en_passant_square |-> eps,
     halfmove_counter |-> halfmove,
     move_number |-> number]

can_castle_kingside(b, color) ==
    IF color = "White" THEN b.can_castle_white_kingside ELSE b.can_castle_black_kingside

can_castle_queenside(b, color) ==
    IF color = "White" THEN b.can_castle_white_queenside ELSE b.can_castle_black_queenside

\* The first square, in rank-major order, holding the king of the colour;
\* NoPosition stands for the scan running off the board (a panic).
get_king_position(b, color) ==
    LET kings == {p \in Positions : b.tiles[p] = Piece(color, "King")} IN
    IF kings = {} THEN NoPosition
    ELSE CHOOSE p \in kings : \A q \in kings : p <= q

(***************************************************************************)
(* The threat oracle, piece::util::threatened_at.                          *)
(***************************************************************************)
\* ray_is_open with nothing ever in the way.
ray_is_open_unobstructed(at, target, ignore, phantom, b) == TRUE

\* Every square strictly between at and target is empty or ignored, and no
\* phantom stands on it.
ray_is_open(at, target, ignore, phantom, b) ==
    LET df == file(target) - file(at)
        dr == rank(target) - rank(at)
        n  == Max(abs(df), abs(dr))
    IN \A k \in 1..(n - 1) :
           LET q == new_unchecked(file(at) + k * signum(df), rank(at) + k * signum(dr))
           IN (b.tiles[q] = None \/ q \in ignore) /\ q \notin phantom

\* attacks with the king attacking nothing, as king::checks answers.
attacks_kingless(piece, at, target, ignore, phantom, b) ==
    LET df == file(target) - file(at)
        dr == rank(target) - rank(at)
    IN CASE piece.kind = "Pawn"   -> dr = forwards(piece.color) /\ abs(df) = 1
         [] piece.kind = "Knight" -> (abs(df) = 1 /\ abs(dr) = 2) \/ (abs(df) = 2 /\ abs(dr) = 1)
         [] piece.kind = "Rook"   ->
                at # target /\ (df = 0 \/ dr = 0)
                /\ ray_is_open(at, target, ignore, phantom, b)
         [] piece.kind = "Bishop" ->
                at # target /\ abs(df) = abs(dr)
                /\ ray_is_open(at, target, ignore, phantom, b)
         [] piece.kind = "Queen"  ->
                at # target /\ (df = 0 \/ dr = 0 \/ abs(df) = abs(dr))
                /\ ray_is_open(at, target, ignore, phantom, b)
         [] OTHER -> FALSE

\* The piece standing on at attacks target.
attacks(piece, at, target, ignore, phantom, b) ==
    LET df == file(target) - file(at)
        dr == rank(target) - rank(at)
    IN CASE piece.kind = "Pawn"   -> dr = forwards(piece.color) /\ abs(df) = 1
         [] piece.kind = "Knight" -> (abs(df) = 1 /\ abs(dr) = 2) \/ (abs(df) = 2 /\ abs(dr) = 1)
         [] piece.kind = "King"   -> Max(abs(df), abs(dr)) = 1
         [] piece.kind = "Rook"   ->
                at # target /\ (df = 0 \/ dr = 0)
                /\ ray_is_open(at, target, ignore, phantom, b)
         [] piece.kind = "Bishop" ->
                at # target /\ abs(df) = abs(dr)
                /\ ray_is_open(at, target, ignore, phantom, b)
         [] piece.kind = "Queen"  ->
                at # target /\ (df = 0 \/ dr = 0 \/ abs(df) = abs(dr))
                /\ ray_is_open(at, target, ignore, phantom, b)
         [] OTHER -> FALSE

\* Some piece of the other colour, not on an ignored square and not replaced
\* by a phantom, attacks the square at.
threatened_at(at, ignore, phantom, color, b) ==
    \E p \in Positions :
        /\ b.tiles[p].color = other(color)
        /\ p \notin ignore
        /\ p \notin phantom
        /\ attacks(b.tiles[p], p, at, ignore, phantom, b)

is_in_check(b) ==
    threatened_at(get_king_position(b, b.next_to_move), {}, {}, b.next_to_move, b)

(***************************************************************************)
(* The move generators: X_yields(b, from, to) is "the iterator of the      *)
(* piece on from yields to".                                               *)
(***************************************************************************)
\* The closure checkcheck of the knight, and of the sliding and pawn
\* generators: the own king is not attacked once from is left and pos taken.
king_stays_safe(b, from, pos, color) ==
    ~threatened_at(get_king_position(b, color), {from}, {pos}, color, b)

\* The final match of a generator's step: pos is empty or holds an opponent.
empty_or_opponent(b, pos, color) ==
    b.tiles[pos] = None \/ b.tiles[pos].color # color

\* knight_deltas without the jump one file right and two ranks up the board.
knight_deltas_seven ==
    {<<2, -1>>, <<-1, -2>>, <<-2, -1>>, <<-2, 1>>, <<-1, 2>>, <<1, 2>>, <<2, 1>>}

knight_deltas ==
    {<<2, -1>>, <<1, -2>>, <<-1, -2>>, <<-2, -1>>, <<-2, 1>>, <<-1, 2>>, <<1, 2>>, <<2, 1>>}

\* knight_yields without the test that the own king stays safe.
knight_yields_unsafe(b, from, to) ==
    LET color == b.tiles[from].color IN
    \E delta \in knight_deltas :
        LET pos == new_i8(file(from) + delta[1], rank(from) + delta[2]) IN
        /\ pos # NoPosition
        /\ pos = to
        /\ empty_or_opponent(b, pos, color)


knight_yields(b, from, to) ==
    LET color == b.tiles[from].color IN
    \E delta \in knight_deltas :
        LET pos == new_i8(file(from) + delta[1], rank(from) + delta[2]) IN
        /\ pos # NoPosition
        /\ pos = to
        /\ empty_or_opponent(b, pos, color)
        /\ king_stays_safe(b, from, pos, color)

\* king_checkcheck with the king still standing on from.
king_checkcheck_king_in_place(b, from, pos, color) ==
    ~threatened_at(pos, {}, {}, color, b)

\* The king's closure checkcheck: pos is not attacked once the king has left from.
king_checkcheck(b, from, pos, color) ==
    ~threatened_at(pos, {from}, {}, color, b)

\* The ten steps of the king's iterator, the two castling steps last.
king_deltas ==
    <<<<1, 0>>, <<1, -1>>, <<0, -1>>, <<-1, -1>>, <<-1, 0>>,
      <<-1, 1>>, <<0, 1>>, <<1, 1>>, <<-2, 0>>, <<2, 0>>>>

\* The condition under which the step x = -2 is skipped.
queenside_skipped(b, from, color) ==
    LET in_between == new_unchecked(file(from) - 1, rank(from)) IN
    \/ ~can_castle_queenside(b, color)
    \/ ~king_checkcheck(b, from, from, color)
    \/ b.tiles[in_between] # None
    \/ ~king_checkcheck(b, from, in_between, color)

\* kingside_skipped without the test of the square the king crosses for attack.
kingside_skipped_unattacked(b, from, color) ==
    LET in_between == new_unchecked(file(from) + 1, rank(from)) IN
    \/ ~can_castle_kingside(b, color)
    \/ ~king_checkcheck(b, from, from, color)
    \/ b.tiles[in_between] # None

\* The condition under which the step x = 2 is skipped.
kingside_skipped(b, from, color) ==
    LET in_between == new_unchecked(file(from) + 1, rank(from)) IN
    \/ ~can_castle_kingside(b, color)
    \/ ~king_checkcheck(b, from, from, color)
    \/ b.tiles[in_between] # None
    \/ ~king_checkcheck(b, from, in_between, color)

king_yields(b, from, to) ==
    LET color == b.tiles[from].color IN
    \E i \in 1..Len(king_deltas) :
        LET x   == king_deltas[i][1]
            y   == king_deltas[i][2]
            pos == new_i8(file(from) + x, rank(from) + y)
        IN /\ pos # NoPosition
           /\ pos = to
           /\ (x = -2 => ~queenside_skipped(b, from, color))
           /\ (x = 2 => ~kingside_skipped(b, from, color))
           /\ empty_or_opponent(b, pos, color)
           /\ king_checkcheck(b, from, pos, color)

\* The deprecated king::append_moves panics: its assert_eq! fails, or it
\* indexes the board beyond file 7 on the king's side.
king_append_panics(b, from) ==
    LET color == b.tiles[from].color IN
    \/ can_castle_queenside(b, color) /\ file(from) # 4
    \/ /\ can_castle_kingside(b, color)
       /\ ~threatened_at(from, {}, {}, color, b)
       /\ \/ file(from) = 7
          \/ /\ file(from) = 6
             /\ b.tiles[new_unchecked(7, rank(from))] = None
             /\ ~threatened_at(new_unchecked(7, rank(from)), {}, {}, color, b)

\* The destinations the deprecated king::append_moves pushes, when it does
\* not panic.
king_append_moves(b, from) ==
    LET color      == b.tiles[from].color
        beside(x)  == new_unchecked(file(from) + x, rank(from))
        free(pos)  == b.tiles[pos] = None /\ ~threatened_at(pos, {}, {}, color, b)
        around     == {to \in Positions :
                          \E i \in 1..8 :
                              LET pos == new_i8(file(from) + king_deltas[i][1],
                                                rank(from) + king_deltas[i][2])
                              IN /\ pos # NoPosition
                                 /\ pos = to
                                 /\ b.tiles[pos].color # color
                                 /\ ~threatened_at(pos, {from}, {}, color, b)}
        queenside  == IF /\ can_castle_queenside(b, color)
                         /\ b.tiles[beside(-3)] = None
                         /\ ~threatened_at(from, {}, {}, color, b)
                         /\ free(beside(-1))
                         /\ free(beside(-2))
                      THEN {beside(-2)} ELSE {}
        kingside   == IF /\ can_castle_kingside(b, color)
                         /\ ~threatened_at(from, {}, {}, color, b)
                         /\ free(beside(1))
                         /\ free(beside(2))
                      THEN {beside(2)} ELSE {}
    IN around \cup queenside \cup kingside

\* The direction vectors of the sliding pieces.
rook_DELTAS == {<<0, 1>>, <<1, 0>>, <<0, -1>>, <<-1, 0>>}

bishop_DELTAS == {<<1, 1>>, <<1, -1>>, <<-1, -1>>, <<-1, 1>>}

queen_DELTAS == rook_DELTAS \cup bishop_DELTAS

\* util::Moves: walk each direction from from, yielding the empty squares and
\* the first opponent, stopping at the first occupied square.
floating_yields(deltas, b, from, to) ==
    LET color == b.tiles[from].color
        df    == file(to) - file(from)
        dr    == rank(to) - rank(from)
    IN /\ to # from
       /\ (df = 0 \/ dr = 0 \/ abs(df) = abs(dr))
       /\ <<signum(df), signum(dr)>> \in deltas
       /\ ray_is_open(from, to, {}, {}, b)
       /\ empty_or_opponent(b, to, color)
       /\ king_stays_safe(b, from, to, color)

rook_yields(b, from, to) == floating_yields(rook_DELTAS, b, from, to)

bishop_yields(b, from, to) == floating_yields(bishop_DELTAS, b, from, to)

queen_yields(b, from, to) == floating_yields(queen_DELTAS, b, from, to)

\* The pawn: one step forward onto an empty square, two from its starting
\* rank over two empty squares, a diagonal step onto an opponent or onto the
\* en-passant target.
pawn_yields(b, from, to) ==
    LET color == b.tiles[from].color
        fw    == forwards(color)
        one   == new_i8(file(from), rank(from) + fw)
        two   == new_i8(file(from), rank(from) + 2 * fw)
    IN /\ \/ /\ to = one
             /\ one # NoPosition
             /\ b.tiles[one] = None
          \/ /\ to = two
             /\ two # NoPosition
             /\ rank(from) = home_rank(color) + fw
             /\ b.tiles[one] = None
             /\ b.tiles[two] = None
          \/ /\ rank(to) = rank(from) + fw
             /\ abs(file(to) - file(from)) = 1
             /\ \/ (b.tiles[to] # None /\ b.tiles[to].color # color)
                \/ to = b.en_passant_square
       /\ king_stays_safe(b, from, to, color)

\* Piece::moves: the generator of the kind of the piece on from.
yields(b, from, to) ==
    LET kind == b.tiles[from].kind IN
    CASE kind = "Pawn"   -> pawn_yields(b, from, to)
      [] kind = "Rook"   -> rook_yields(b, from, to)
      [] kind = "Knight" -> knight_yields(b, from, to)
      [] kind = "Bishop" -> bishop_yields(b, from, to)
      [] kind = "Queen"  -> queen_yields(b, from, to)
      [] kind = "King"   -> king_yields(b, from, to)
      [] OTHER -> FALSE

\* The destinations the iterator piece.moves(board, from) yields.
moves(b, from) == {to \in Positions : yields(b, from, to)}

(***************************************************************************)
(* Moves and the Board operations.                                         *)
(***************************************************************************)
Move(from, to, promotion) == [from |-> from, to |-> to, promotion |-> promotion]

\* missing_promotion testing for the mover's own home rank.
missing_promotion_own_home(b, move_) ==
    IF move_.promotion # NoKind THEN FALSE
    ELSE IF b.tiles[move_.from] = None THEN FALSE
    ELSE LET piece == b.tiles[move_.from] IN
         piece.kind = "Pawn" /\ rank(move_.to) = home_rank(piece.color)


missing_promotion(b, move_) ==
    IF move_.promotion # NoKind THEN FALSE
    ELSE IF b.tiles[move_.from] = None THEN FALSE
    ELSE LET piece == b.tiles[move_.from] IN
         piece.kind = "Pawn" /\ rank(move_.to) = home_rank(other(piece.color))

\* The moves all_legal_moves yields: for every square holding a piece of the
\* side to move, every destination of its generator, with promotion None.
all_legal_moves(b) ==
    {m \in [from : Positions, to : Positions, promotion : {NoKind}] :
        b.tiles[m.from].color = b.next_to_move /\ yields(b, m.from, m.to)}

\* The values make_move returns: Ok(BoardState) or Err(Error); Panicked for a
\* call that does not return.
NoResult == [tag |-> "None", value |-> "None", winner |-> "None"]

Ok(state) == [tag |-> "Ok", value |-> state, winner |-> "None"]

Checkmate(winner) == [tag |-> "Ok", value |-> "Checkmate", winner |-> winner]

Err(error) == [tag |-> "Err", value |-> error, winner |-> "None"]

Panicked == [tag |-> "Panic", value |-> "None", winner |-> "None"]

cannot_castle_kingside(b, color) ==
    IF color = "White" THEN [b EXCEPT !.can_castle_white_kingside = FALSE]
    ELSE [b EXCEPT !.can_castle_black_kingside = FALSE]

cannot_castle_queenside(b, color) ==
    IF color = "White" THEN [b EXCEPT !.can_castle_white_queenside = FALSE]
    ELSE [b EXCEPT !.can_castle_black_queenside = FALSE]

set_en_passant_square(b, eps) == [b EXCEPT !.en_passant_square = eps]

\* reset_halfmove_counter leaving the counter as it is.
reset_halfmove_counter_kept(b) == b

reset_halfmove_counter(b) == [b EXCEPT !.halfmove_counter = 0]

\* The largest u16.
U16Max == 65535

\* switch_next_to_move counting the move of either colour.
switch_next_to_move_counting_both(b) ==
    [b EXCEPT !.halfmove_counter = (b.halfmove_counter + 1) % (U16Max + 1),
              !.move_number = (b.move_number + 1) % (U16Max + 1),
              !.next_to_move = other(b.next_to_move)]

\* `+= 1` leaving the counter as it is.
wrapping_add_one_stuck(n) == n

\* `+= 1` on a u16 counter, as a build without overflow checks computes it.
wrapping_add_one(n) == (n + 1) % (U16Max + 1)

\* One of the two `+= 1` of switch_next_to_move is applied to 65535: a build
\* with overflow checks panics there, a build without them wraps to 0.
overflows(b) ==
    \/ b.halfmove_counter = U16Max
    \/ b.next_to_move = "Black" /\ b.move_number = U16Max

\* The counters are u16: the value is the one of a build without overflow
\* checks, the panic of the other build is an outcome of the call (see
\* make_move_outcomes).
switch_next_to_move(b) ==
    [b EXCEPT !.halfmove_counter = wrapping_add_one(b.halfmove_counter),
              !.move_number = IF b.next_to_move = "Black"
                              THEN wrapping_add_one(b.move_number)
                              ELSE b.move_number,
              !.next_to_move = other(b.next_to_move)]

\* Some piece of the side to move has a destination.
has_moves(b) ==
    \E pos \in Positions :
        /\ b.tiles[pos].color = b.next_to_move
        /\ \E to \in Positions : yields(b, pos, to)

\* classify naming the side that is mated as the winner.
classify_winner_mated(b) ==
    IF get_king_position(b, b.next_to_move) = NoPosition THEN Panicked
    ELSE IF ~has_moves(b)
         THEN IF threatened_at(get_king_position(b, b.next_to_move), {}, {},
                               b.next_to_move, b)
              THEN Checkmate(b.next_to_move)
              ELSE Ok("Draw")
         ELSE IF b.halfmove_counter = 50 THEN Ok("Draw")
         ELSE Ok("Normal")

\* classify drawing at a halfmove counter of 100 instead of 50.
classify_hundred(b) ==
    IF get_king_position(b, b.next_to_move) = NoPosition THEN Panicked
    ELSE IF ~has_moves(b)
         THEN IF threatened_at(get_king_position(b, b.next_to_move), {}, {},
                               b.next_to_move, b)
              THEN Checkmate(other(b.next_to_move))
              ELSE Ok("Draw")
         ELSE IF b.halfmove_counter = 100 THEN Ok("Draw")
         ELSE Ok("Normal")

\* The end of make_move_unchecked: the state of the board after the move.
classify(b) ==
    IF get_king_position(b, b.next_to_move) = NoPosition THEN Panicked
    ELSE IF ~has_moves(b)
         THEN IF threatened_at(get_king_position(b, b.next_to_move), {}, {},
                               b.next_to_move, b)
              THEN Checkmate(other(b.next_to_move))
              ELSE Ok("Draw")
         ELSE IF b.halfmove_counter = 50 THEN Ok("Draw")
         ELSE Ok("Normal")

\* mark_castling without the clearing of the opponent's rights at the corners.
mark_castling_own_only(b, piece, move_, current_color) ==
    IF piece.kind = "King"
    THEN cannot_castle_queenside(cannot_castle_kingside(b, current_color), current_color)
    ELSE IF piece.kind = "Rook" /\ file(move_.from) = 0
         THEN cannot_castle_queenside(b, current_color)
    ELSE IF piece.kind = "Rook" /\ file(move_.from) = 7
         THEN cannot_castle_kingside(b, current_color)
    ELSE b

\* The castling marking of make_move_unchecked.
mark_castling(b, piece, move_, current_color) ==
    LET b1 == IF piece.kind = "King"
              THEN cannot_castle_queenside(cannot_castle_kingside(b, current_color),
                                           current_color)
              ELSE IF piece.kind = "Rook" /\ file(move_.from) = 0
                   THEN cannot_castle_queenside(b, current_color)
              ELSE IF piece.kind = "Rook" /\ file(move_.from) = 7
                   THEN cannot_castle_kingside(b, current_color)
              ELSE b
        b2 == IF move_.to = new_unchecked(0, home_rank(other(current_color)))
              THEN cannot_castle_queenside(b1, other(current_color))
              ELSE b1
    IN IF move_.to = new_unchecked(7, home_rank(other(current_color)))
       THEN cannot_castle_kingside(b2, other(current_color))
       ELSE b2

\* promotion_refused letting King and Pawn through.
promotion_refused_absent_only(promotion) == promotion = NoKind

\* The promotion match of make_move_unchecked: the kinds it answers with
\* RequiresPromotion.
promotion_refused(promotion) == promotion \in {NoKind, "King", "Pawn"}

\* en_passant_marking without the test that the moved piece is a pawn.
en_passant_marking_any_piece(piece, move_, current_color) ==
    LET delta_rank == rank(move_.to) - rank(move_.from) IN
    IF abs(delta_rank) = 2
    THEN new_unchecked(file(move_.to), rank(move_.to) + backwards(current_color))
    ELSE NoPosition

\* The en-passant marking of make_move_unchecked: the new target.
en_passant_marking(piece, move_, current_color) ==
    LET delta_rank == rank(move_.to) - rank(move_.from) IN
    IF piece.kind = "Pawn" /\ abs(delta_rank) = 2
    THEN new_unchecked(file(move_.to), rank(move_.to) + backwards(current_color))
    ELSE NoPosition

\* make_move_unchecked refusing the promotion before it relocates the pawn.
make_move_unchecked_refusing_first(b, move_) ==
    LET piece         == b.tiles[move_.from]
        current_color == b.next_to_move
        relocated     == [b.tiles EXCEPT ![move_.from] = None, ![move_.to] = piece]
        far           == piece.kind = "Pawn" /\ (rank(move_.to) = 7 \/ rank(move_.to) = 0)
    IN IF far /\ promotion_refused(move_.promotion)
       THEN [board |-> b, result |-> Err("RequiresPromotion")]
       ELSE
        LET promoted   == IF far
                          THEN [relocated EXCEPT ![move_.to] =
                                    Piece(current_color, move_.promotion)]
                          ELSE relocated
            delta_file == file(move_.to) - file(move_.from)
            rook_pos   == new_unchecked(IF delta_file > 0 THEN 7 ELSE 0, rank(move_.to))
            rook_dst   == new_unchecked(file(move_.to) + ((-delta_file) \div 2),
                                        rank(move_.to))
            castled    == IF piece.kind = "King" /\ abs(delta_file) = 2
                          THEN [promoted EXCEPT ![rook_pos] = None,
                                                ![rook_dst] = promoted[rook_pos]]
                          ELSE promoted
            marked     == mark_castling([b EXCEPT !.tiles = castled], piece, move_,
                                        current_color)
            en_passant == piece.kind = "Pawn" /\ move_.to = b.en_passant_square
            target     == new_unchecked(file(move_.to),
                                        rank(move_.to) + backwards(current_color))
            captured   == IF en_passant THEN castled[target] ELSE b.tiles[move_.to]
            taken      == IF en_passant
                          THEN [marked EXCEPT !.tiles = [castled EXCEPT ![target] = None]]
                          ELSE marked
            eps        == en_passant_marking(piece, move_, current_color)
            switched   == switch_next_to_move(set_en_passant_square(taken, eps))
            final      == IF captured # None \/ piece.kind = "Pawn"
                          THEN reset_halfmove_counter(switched)
                          ELSE switched
        IN [board |-> final, result |-> classify(final)]

\* make_move_unchecked promoting to a queen whatever kind is asked for.
make_move_unchecked_always_queen(b, move_) ==
    LET piece         == b.tiles[move_.from]
        current_color == b.next_to_move
        relocated     == [b.tiles EXCEPT ![move_.from] = None, ![move_.to] = piece]
        far           == piece.kind = "Pawn" /\ (rank(move_.to) = 7 \/ rank(move_.to) = 0)
    IN IF far /\ promotion_refused(move_.promotion)
       THEN [board |-> [b EXCEPT !.tiles = relocated], result |-> Err("RequiresPromotion")]
       ELSE
        LET promoted   == IF far
                          THEN [relocated EXCEPT ![move_.to] =
                                    Piece(current_color, "Queen")]
                          ELSE relocated
            delta_file == file(move_.to) - file(move_.from)
            rook_pos   == new_unchecked(IF delta_file > 0 THEN 7 ELSE 0, rank(move_.to))
            rook_dst   == new_unchecked(file(move_.to) + ((-delta_file) \div 2),
                                        rank(move_.to))
            castled    == IF piece.kind = "King" /\ abs(delta_file) = 2
                          THEN [promoted EXCEPT ![rook_pos] = None,
                                                ![rook_dst] = promoted[rook_pos]]
                          ELSE promoted
            marked     == mark_castling([b EXCEPT !.tiles = castled], piece, move_,
                                        current_color)
            en_passant == piece.kind = "Pawn" /\ move_.to = b.en_passant_square
            target     == new_unchecked(file(move_.to),
                                        rank(move_.to) + backwards(current_color))
            captured   == IF en_passant THEN castled[target] ELSE b.tiles[move_.to]
            taken      == IF en_passant
                          THEN [marked EXCEPT !.tiles = [castled EXCEPT ![target] = None]]
                          ELSE marked
            eps        == en_passant_marking(piece, move_, current_color)
            switched   == switch_next_to_move(set_en_passant_square(taken, eps))
            final      == IF captured # None \/ piece.kind = "Pawn"
                          THEN reset_halfmove_counter(switched)
                          ELSE switched
        IN [board |-> final, result |-> classify(final)]

\* make_move_unchecked taking the rook from file 7 for either side.
make_move_unchecked_kingside_rook(b, move_) ==
    LET piece         == b.tiles[move_.from]
        current_color == b.next_to_move
        relocated     == [b.tiles EXCEPT ![move_.from] = None, ![move_.to] = piece]
        far           == piece.kind = "Pawn" /\ (rank(move_.to) = 7 \/ rank(move_.to) = 0)
    IN IF far /\ promotion_refused(move_.promotion)
       THEN [board |-> [b EXCEPT !.tiles = relocated], result |-> Err("RequiresPromotion")]
       ELSE
        LET promoted   == IF far
                          THEN [relocated EXCEPT ![move_.to] =
                                    Piece(current_color, move_.promotion)]
                          ELSE relocated
            delta_file == file(move_.to) - file(move_.from)
            rook_pos   == new_unchecked(7, rank(move_.to))
            rook_dst   == new_unchecked(file(move_.to) + ((-delta_file) \div 2),
                                        rank(move_.to))
            castled    == IF piece.kind = "King" /\ abs(delta_file) = 2
                          THEN [promoted EXCEPT ![rook_pos] = None,
                                                ![rook_dst] = promoted[rook_pos]]
                          ELSE promoted
            marked     == mark_castling([b EXCEPT !.tiles = castled], piece, move_,
                                        current_color)
            en_passant == piece.kind = "Pawn" /\ move_.to = b.en_passant_square
            target     == new_unchecked(file(move_.to),
                                        rank(move_.to) + backwards(current_color))
            captured   == IF en_passant THEN castled[target] ELSE b.tiles[move_.to]
            taken      == IF en_passant
                          THEN [marked EXCEPT !.tiles = [castled EXCEPT ![target] = None]]
                          ELSE marked
            eps        == en_passant_marking(piece, move_, current_color)
            switched   == switch_next_to_move(set_en_passant_square(taken, eps))
            final      == IF captured # None \/ piece.kind = "Pawn"
                          THEN reset_halfmove_counter(switched)
                          ELSE switched
        IN [board |-> final, result |-> classify(final)]

\* make_move_unchecked reading the pawn taken en passant without removing it.
make_move_unchecked_target_kept(b, move_) ==
    LET piece         == b.tiles[move_.from]
        current_color == b.next_to_move
        relocated     == [b.tiles EXCEPT ![move_.from] = None, ![move_.to] = piece]
        far           == piece.kind = "Pawn" /\ (rank(move_.to) = 7 \/ rank(move_.to) = 0)
    IN IF far /\ promotion_refused(move_.promotion)
       THEN [board |-> [b EXCEPT !.tiles = relocated], result |-> Err("RequiresPromotion")]
       ELSE
        LET promoted   == IF far
                          THEN [relocated EXCEPT ![move_.to] =
                                    Piece(current_color, move_.promotion)]
                          ELSE relocated
            delta_file == file(move_.to) - file(move_.from)
            rook_pos   == new_unchecked(IF delta_file > 0 THEN 7 ELSE 0, rank(move_.to))
            rook_dst   == new_unchecked(file(move_.to) + ((-delta_file) \div 2),
                                        rank(move_.to))
            castled    == IF piece.kind = "King" /\ abs(delta_file) = 2
                          THEN [promoted EXCEPT ![rook_pos] = None,
                                                ![rook_dst] = promoted[rook_pos]]
                          ELSE promoted
            marked     == mark_castling([b EXCEPT !.tiles = castled], piece, move_,
                                        current_color)
            en_passant == piece.kind = "Pawn" /\ move_.to = b.en_passant_square
            target     == new_unchecked(file(move_.to),
                                        rank(move_.to) + backwards(current_color))
            captured   == IF en_passant THEN castled[target] ELSE b.tiles[move_.to]
            taken      == marked
            eps        == en_passant_marking(piece, move_, current_color)
            switched   == switch_next_to_move(set_en_passant_square(taken, eps))
            final      == IF captured # None \/ piece.kind = "Pawn"
                          THEN reset_halfmove_counter(switched)
                          ELSE switched
        IN [board |-> final, result |-> classify(final)]

\* Board::make_move_unchecked: the board it leaves and the value it returns.
make_move_unchecked(b, move_) ==
    LET piece         == b.tiles[move_.from]
        current_color == b.next_to_move
        relocated     == [b.tiles EXCEPT ![move_.from] = None, ![move_.to] = piece]
        far           == piece.kind = "Pawn" /\ (rank(move_.to) = 7 \/ rank(move_.to) = 0)
    IN IF far /\ promotion_refused(move_.promotion)
       THEN [board |-> [b EXCEPT !.tiles = relocated], result |-> Err("RequiresPromotion")]
       ELSE
        LET promoted   == IF far
                          THEN [relocated EXCEPT ![move_.to] =
                                    Piece(current_color, move_.promotion)]
                          ELSE relocated
            delta_file == file(move_.to) - file(move_.from)
            rook_pos   == new_unchecked(IF delta_file > 0 THEN 7 ELSE 0, rank(move_.to))
            rook_dst   == new_unchecked(file(move_.to) + ((-delta_file) \div 2),
                                        rank(move_.to))
            castled    == IF piece.kind = "King" /\ abs(delta_file) = 2
                          THEN [promoted EXCEPT ![rook_pos] = None,
                                                ![rook_dst] = promoted[rook_pos]]
                          ELSE promoted
            marked     == mark_castling([b EXCEPT !.tiles = castled], piece, move_,
                                        current_color)
            en_passant == piece.kind = "Pawn" /\ move_.to = b.en_passant_square
            target     == new_unchecked(file(move_.to),
                                        rank(move_.to) + backwards(current_color))
            captured   == IF en_passant THEN castled[target] ELSE b.tiles[move_.to]
            taken      == IF en_passant
                          THEN [marked EXCEPT !.tiles = [castled EXCEPT ![target] = None]]
                          ELSE marked
            eps        == en_passant_marking(piece, move_, current_color)
            switched   == switch_next_to_move(set_en_passant_square(taken, eps))
            final      == IF captured # None \/ piece.kind = "Pawn"
                          THEN reset_halfmove_counter(switched)
                          ELSE switched
        IN [board |-> final, result |-> classify(final)]

\* Board::make_move taking every destination that does not hold a piece of
\* the mover for a destination of the piece.
Board_make_move_any_destination(b, move_) ==
    IF b.tiles[move_.from] # None
    THEN IF b.tiles[move_.from].color # b.next_to_move
         THEN [board |-> b, result |-> Err("OtherPlayersTurn")]
         ELSE IF ~empty_or_opponent(b, move_.to, b.next_to_move)
              THEN [board |-> b, result |-> Err("IllegalMove")]
              ELSE make_move_unchecked(b, move_)
    ELSE [board |-> b, result |-> Err("NoPieceToMove")]

\* Board::make_move testing the colour before it tests for a piece.
Board_make_move_colour_first(b, move_) ==
    IF b.tiles[move_.from].color # b.next_to_move
    THEN [board |-> b, result |-> Err("OtherPlayersTurn")]
    ELSE IF ~yields(b, move_.from, move_.to)
         THEN [board |-> b, result |-> Err("IllegalMove")]
         ELSE make_move_unchecked(b, move_)

\* Board::make_move: the validation, then make_move_unchecked.
Board_make_move(b, move_) ==
    IF b.tiles[move_.from] # None
    THEN IF b.tiles[move_.from].color # b.next_to_move
         THEN [board |-> b, result |-> Err("OtherPlayersTurn")]
         ELSE IF ~yields(b, move_.from, move_.to)
              THEN [board |-> b, result |-> Err("IllegalMove")]
              ELSE make_move_unchecked(b, move_)
    ELSE [board |-> b, result |-> Err("NoPieceToMove")]

(***************************************************************************)
(* The notation codec, Board::from_fen and Board::to_fen (board/fen.rs).   *)
(* A text is a sequence of one-character strings.                          *)
(***************************************************************************)
\* str::split_ascii_whitespace: the non-empty runs of characters between
\* spaces, in the order of the text.
split_ascii_whitespace(text) ==
    LET starts == {i \in 1..Len(text) :
                      text[i] # " " /\ (i = 1 \/ text[i - 1] = " ")}
        start(k) == CHOOSE i \in starts : Cardinality({j \in starts : j < i}) = k - 1
        end(i)   == CHOOSE j \in i..Len(text) :
                        /\ \A m \in i..j : text[m] # " "
                        /\ (j = Len(text) \/ text[j + 1] = " ")
    IN [k \in 1..Cardinality(starts) |-> SubSeq(text, start(k), end(start(k)))]

DecimalDigits == <<"0", "1", "2", "3", "4", "5", "6", "7", "8", "9">>

is_decimal_digit(c) == \E n \in 1..10 : DecimalDigits[n] = c

decimal_value(c) == (CHOOSE n \in 1..10 : DecimalDigits[n] = c) - 1

\* str::parse::<u16>: the number the digits denote, after an optional "+";
\* -1 for an empty text, a character that is no digit, or a number above u16.
RECURSIVE parse_digits(_, _, _)
parse_digits(chars, i, acc) ==
    IF i > Len(chars) THEN acc
    ELSE IF ~is_decimal_digit(chars[i]) THEN -1
    ELSE LET n == acc * 10 + decimal_value(chars[i]) IN
         IF n > U16Max THEN -1 ELSE parse_digits(chars, i + 1, n)

parse_u16(chars) ==
    LET digits == IF chars # <<>> /\ chars[1] = "+" THEN Tail(chars) ELSE chars IN
    IF digits = <<>> THEN -1 ELSE parse_digits(digits, 1, 0)

\* format!("{}", n) of an unsigned number.
RECURSIVE decimal(_)
decimal(n) ==
    IF n < 10 THEN <<DecimalDigits[n + 1]>>
    ELSE Append(decimal(n \div 10), DecimalDigits[(n % 10) + 1])

FileLetters == <<"a", "b", "c", "d", "e", "f", "g", "h">>

\* Position::from_str: a file letter and a rank digit, the digit d naming the
\* rank index 8 - d; NoPosition for a text that is no square.
Position_from_str(chars) ==
    IF Len(chars) # 2 THEN NoPosition
    ELSE IF ~(\E n \in 1..8 : FileLetters[n] = chars[1]) THEN NoPosition
    ELSE IF ~(\E n \in 1..8 : Digits[n] = chars[2]) THEN NoPosition
    ELSE new_unchecked((CHOOSE n \in 1..8 : FileLetters[n] = chars[1]) - 1,
                       8 - digit_value(chars[2]))

\* Position::to_string.
Position_to_string(p) == <<FileLetters[file(p) + 1], Digits[8 - rank(p)]>>

\* Kind::name and Piece::name.
Kind_name(kind) ==
    CASE kind = "Pawn"   -> "P"
      [] kind = "Rook"   -> "R"
      [] kind = "Bishop" -> "B"
      [] kind = "Knight" -> "N"
      [] kind = "Queen"  -> "Q"
      [] kind = "King"   -> "K"

to_ascii_lowercase(name) ==
    CASE name = "P" -> "p"
      [] name = "R" -> "r"
      [] name = "B" -> "b"
      [] name = "N" -> "n"
      [] name = "Q" -> "q"
      [] name = "K" -> "k"
      [] OTHER -> name

Piece_name(piece) ==
    IF piece.color = "Black" THEN to_ascii_lowercase(Kind_name(piece.kind))
    ELSE Kind_name(piece.kind)

\* The board from_fen fills in, before it reads the fields after the first.
NoBoard ==
    [tiles |-> EmptyTiles,
     next_to_move |-> "White",
     can_castle_white_kingside |-> FALSE,
     can_castle_white_queenside |-> FALSE,
     can_castle_black_kingside |-> FALSE,
     can_castle_black_queenside |-> FALSE,
     en_passant_square |-> NoPosition,
     halfmove_counter |-> 0,
     move_number |-> 0]

\* The runs of characters between the "/" of the placement field, one for
\* each value the rank cursor of from_fen takes.
rank_fields(chars) ==
    LET slashes == {i \in 1..Len(chars) : chars[i] = "/"}
        slash(k) == IF k = 0 THEN 0
                    ELSE IF k > Cardinality(slashes) THEN Len(chars) + 1
                    ELSE CHOOSE i \in slashes : Cardinality({j \in slashes : j < i}) = k - 1
    IN [k \in 1..(Cardinality(slashes) + 1) |->
           SubSeq(chars, slash(k - 1) + 1, slash(k) - 1)]

NoRow == [f \in 0..7 |-> None]

\* The placement loop of from_fen within one rank, with its ways out: the
\* pieces of the rank and the two found-king flags, or ParsingError for a
\* letter that names no piece, or a panic for a piece written outside the
\* 8 x 8 array.
RECURSIVE row_part(_, _, _, _, _)
row_part(chars, i, rk, fl, acc) ==
    IF i > Len(chars) THEN acc
    ELSE LET c == chars[i] IN
         IF \E n \in 1..8 : Digits[n] = c
         THEN row_part(chars, i + 1, rk, fl + digit_value(c), acc)
         ELSE IF Kind_from_name(c) = "ParsingError"
              THEN [acc EXCEPT !.error = "ParsingError"]
         ELSE IF rk > 7 \/ fl > 7
              THEN [acc EXCEPT !.error = "Panic"]
         ELSE LET piece == Piece_from_name(c) IN
              row_part(chars, i + 1, rk, fl + 1,
                  [row |-> [acc.row EXCEPT ![fl] = piece],
                   found_white_king |-> acc.found_white_king \/ piece = Piece("White", "King"),
                   found_black_king |-> acc.found_black_king \/ piece = Piece("Black", "King"),
                   error |-> "None"])

\* The placement loop of from_fen over the whole field: the loop stops at the
\* first rank that ends it with an error or a panic.
tiles_part(chars) ==
    LET fields == rank_fields(chars)
        rows   == [k \in 1..Len(fields) |->
                      row_part(fields[k], 1, k - 1, 0,
                               [row |-> NoRow, found_white_king |-> FALSE,
                                found_black_king |-> FALSE, error |-> "None"])]
        failing == {k \in 1..Len(fields) : rows[k].error # "None"}
    IN [tiles |-> [p \in Positions |->
                      IF rank(p) < Len(fields) THEN rows[rank(p) + 1].row[file(p)] ELSE None],
        found_white_king |-> \E k \in 1..Len(fields) : rows[k].found_white_king,
        found_black_king |-> \E k \in 1..Len(fields) : rows[k].found_black_king,
        error |-> IF failing = {} THEN "None"
                  ELSE rows[CHOOSE k \in failing : \A j \in failing : k <= j].error]

\* The castling loop of from_fen: the board with the rights the characters
\* name, or "Castling" for a character that names none.
RECURSIVE castling_part(_, _, _)
castling_part(chars, i, b) ==
    IF i > Len(chars) THEN [board |-> b, error |-> "None"]
    ELSE LET c == chars[i] IN
         CASE c = "K" -> castling_part(chars, i + 1, [b EXCEPT !.can_castle_white_kingside = TRUE])
           [] c = "Q" -> castling_part(chars, i + 1, [b EXCEPT !.can_castle_white_queenside = TRUE])
           [] c = "k" -> castling_part(chars, i + 1, [b EXCEPT !.can_castle_black_kingside = TRUE])
           [] c = "q" -> castling_part(chars, i + 1, [b EXCEPT !.can_castle_black_queenside = TRUE])
           [] c = "-" -> castling_part(chars, i + 1, b)
           [] OTHER -> [board |-> b, error |-> "Castling"]

\* Board::from_fen: the board built and Ok, or the error (no board is built).
from_fen(text) ==
    LET parts  == split_ascii_whitespace(text)
        failed(error) == [board |-> NoBoard, result |-> Err(error)]
    IN
    IF Len(parts) < 1 THEN failed("FenError(Pieces)")
    ELSE LET placed == tiles_part(parts[1])
    IN
    IF placed.error = "Panic" THEN [board |-> NoBoard, result |-> Panicked]
    ELSE IF placed.error # "None" THEN failed(placed.error)
    ELSE IF Len(parts) < 2 \/ parts[2] \notin {<<"w">>, <<"b">>} THEN failed("FenError(NextToMove)")
    ELSE IF Len(parts) < 3 THEN failed("FenError(Castling)")
    ELSE LET b2 == [NoBoard EXCEPT !.tiles = placed.tiles,
                                   !.next_to_move = IF parts[2] = <<"w">> THEN "White" ELSE "Black"]
             castled == castling_part(parts[3], 1, b2)
    IN
    IF castled.error # "None" THEN failed("FenError(Castling)")
    ELSE IF Len(parts) < 4 THEN failed("FenError(EnPassant)")
    ELSE IF parts[4] # <<"-">> /\ Position_from_str(parts[4]) = NoPosition THEN failed("ParsingError")
    ELSE IF Len(parts) < 5 \/ parse_u16(parts[5]) = -1 THEN failed("FenError(HalfmoveCounter)")
    ELSE IF Len(parts) < 6 \/ parse_u16(parts[6]) = -1 THEN failed("FenError(MoveNumber)")
    ELSE IF ~placed.found_white_king \/ ~placed.found_black_king THEN failed("InvalidGameState")
    ELSE [board |-> [castled.board EXCEPT
                        !.en_passant_square =
                            IF parts[4] = <<"-">> THEN NoPosition ELSE Position_from_str(parts[4]),
                        !.halfmove_counter = parse_u16(parts[5]),
                        !.move_number = parse_u16(parts[6])],
          result |-> Ok("Board")]

\* The rank loop of to_fen: the pieces of a rank with the runs of empty
\* squares counted; after the last rank neither the open run nor "/" is written.
RECURSIVE rank_text(_, _, _, _, _)
rank_text(b, rk, fl, skip, out) ==
    LET run == IF skip # 0 THEN decimal(skip) ELSE <<>> IN
    IF fl = 8
    THEN IF rk # 7 THEN out \o run \o <<"/">> ELSE out
    ELSE LET piece == b.tiles[new_unchecked(fl, rk)] IN
         IF piece # None
         THEN rank_text(b, rk, fl + 1, 0, out \o run \o <<Piece_name(piece)>>)
         ELSE rank_text(b, rk, fl + 1, skip + 1, out)

\* The ranks 0 to 7 in turn.
ranks_text(b) ==
    rank_text(b, 0, 0, 0, <<>>) \o rank_text(b, 1, 0, 0, <<>>)
    \o rank_text(b, 2, 0, 0, <<>>) \o rank_text(b, 3, 0, 0, <<>>)
    \o rank_text(b, 4, 0, 0, <<>>) \o rank_text(b, 5, 0, 0, <<>>)
    \o rank_text(b, 6, 0, 0, <<>>) \o rank_text(b, 7, 0, 0, <<>>)

\* Board::to_fen writing nothing where no castling right is left.
to_fen_without_dash(b) ==
    ranks_text(b)
    \o <<" ">>
    \o <<IF b.next_to_move = "White" THEN "w" ELSE "b">>
    \o <<" ">>
    \o (IF b.can_castle_white_kingside THEN <<"K">> ELSE <<>>)
    \o (IF b.can_castle_white_queenside THEN <<"Q">> ELSE <<>>)
    \o (IF b.can_castle_black_kingside THEN <<"k">> ELSE <<>>)
    \o (IF b.can_castle_black_queenside THEN <<"q">> ELSE <<>>)
    \o <<" ">>
    \o (IF b.en_passant_square # NoPosition
        THEN Position_to_string(b.en_passant_square) ELSE <<"-">>)
    \o <<" ">>
    \o decimal(b.halfmove_counter)
    \o <<" ">>
    \o decimal(b.move_number)

\* Board::to_fen.
to_fen(b) ==
    LET none == /\ ~b.can_castle_white_kingside
                /\ ~b.can_castle_white_queenside
                /\ ~b.can_castle_black_kingside
                /\ ~b.can_castle_black_queenside
    IN ranks_text(b)
       \o <<" ">>
       \o <<IF b.next_to_move = "White" THEN "w" ELSE "b">>
       \o <<" ">>
       \o (IF none THEN <<"-">> ELSE <<>>)
       \o (IF b.can_castle_white_kingside THEN <<"K">> ELSE <<>>)
       \o (IF b.can_castle_white_queenside THEN <<"Q">> ELSE <<>>)
       \o (IF b.can_castle_black_kingside THEN <<"k">> ELSE <<>>)
       \o (IF b.can_castle_black_queenside THEN <<"q">> ELSE <<>>)
       \o <<" ">>
       \o (IF b.en_passant_square # NoPosition
           THEN Position_to_string(b.en_passant_square) ELSE <<"-">>)
       \o <<" ">>
       \o decimal(b.halfmove_counter)
       \o <<" ">>
       \o decimal(b.move_number)

(***************************************************************************)
(* The boards the exploration starts from: the default board and boards    *)
(* of games in progress, as Board::from_fen builds them.                   *)
(***************************************************************************)
\* rnbqkbnr/pppppppp/8/8/8/8/PPPPPPPP/RNBQKBNR w KQkq - 0 1: Board::default().
Standard ==
    BoardOf(<<"r", "n", "b", "q", "k", "b", "n", "r", "/", "p", "p", "p", "p", "p", "p", "p", "p", "/", "8", "/", "8", "/", "8", "/", "8", "/", "P", "P", "P", "P", "P", "P", "P", "P", "/", "R", "N", "B", "Q", "K", "B", "N", "R">>,
            "White", TRUE, TRUE, TRUE, TRUE, NoPosition, 0, 1)

\* r3k2r/8/8/8/8/8/8/RN2K1nR w KQkq - 4 30: White may castle; a knight stands on b1, a black knight on g1.
CastleWhite ==
    BoardOf(<<"r", "3", "k", "2", "r", "/", "8", "/", "8", "/", "8", "/", "8", "/", "8", "/", "8", "/", "R", "N", "2", "K", "1", "n", "R">>,
            "White", TRUE, TRUE, TRUE, TRUE, NoPosition, 4, 30)

\* rn2k1Nr/8/8/8/8/8/8/R3K2R b KQkq - 4 30: the same for Black.
CastleBlack ==
    BoardOf(<<"r", "n", "2", "k", "1", "N", "r", "/", "8", "/", "8", "/", "8", "/", "8", "/", "8", "/", "8", "/", "R", "3", "K", "2", "R">>,
            "Black", TRUE, TRUE, TRUE, TRUE, NoPosition, 4, 30)

\* r3kr2/8/8/8/8/8/8/R3K2R w KQq - 4 30: the black rook on f8 attacks f1, the square White's king crosses.
CastleAttacked ==
    BoardOf(<<"r", "3", "k", "r", "2", "/", "8", "/", "8", "/", "8", "/", "8", "/", "8", "/", "8", "/", "R", "3", "K", "2", "R">>,
            "White", TRUE, TRUE, FALSE, TRUE, NoPosition, 4, 30)

\* r3k2r/8/8/8/8/8/8/R3K2R w Kk - 6 30: both queenside rights were lost to rook moves.
CastleLost ==
    BoardOf(<<"r", "3", "k", "2", "r", "/", "8", "/", "8", "/", "8", "/", "8", "/", "8", "/", "8", "/", "R", "3", "K", "2", "R">>,
            "White", TRUE, FALSE, TRUE, FALSE, NoPosition, 6, 30)

\* 3n3k/4P3/8/8/8/8/8/K7 w - - 0 50: a white pawn one step from the far rank.
PromoteWhite ==
    BoardOf(<<"3", "n", "3", "k", "/", "4", "P", "3", "/", "8", "/", "8", "/", "8", "/", "8", "/", "8", "/", "K", "7">>,
            "White", FALSE, FALSE, FALSE, FALSE, NoPosition, 0, 50)

\* 7k/8/8/8/8/8/p7/1N2K3 b - - 0 50: a black pawn one step from the far rank.
PromoteBlack ==
    BoardOf(<<"7", "k", "/", "8", "/", "8", "/", "8", "/", "8", "/", "8", "/", "p", "7", "/", "1", "N", "2", "K", "3">>,
            "Black", FALSE, FALSE, FALSE, FALSE, NoPosition, 0, 50)

\* 4k3/8/8/8/5p2/8/4P3/4K3 w - - 0 30: e2e4 can be answered by f4xe3 en passant.
DoubleStep ==
    BoardOf(<<"4", "k", "3", "/", "8", "/", "8", "/", "8", "/", "5", "p", "2", "/", "8", "/", "4", "P", "3", "/", "4", "K", "3">>,
            "White", FALSE, FALSE, FALSE, FALSE, NoPosition, 0, 30)

\* 4k3/8/8/8/4Pp2/8/8/4K3 b - e3 0 30: the en-passant target e3 is set.
EnPassantSet ==
    BoardOf(<<"4", "k", "3", "/", "8", "/", "8", "/", "8", "/", "4", "P", "p", "2", "/", "8", "/", "8", "/", "4", "K", "3">>,
            "Black", FALSE, FALSE, FALSE, FALSE, new_unchecked(4, 5), 0, 30)

\* 8/2p5/3p4/KP5r/1R3p1k/8/4P1P1/8 w - - 0 1: the position of the test perft_3.
Perft3 ==
    BoardOf(<<"8", "/", "2", "p", "5", "/", "3", "p", "4", "/", "K", "P", "5", "r", "/", "1", "R", "3", "p", "1", "k", "/", "8", "/", "4", "P", "1", "P", "1", "/", "8">>,
            "White", FALSE, FALSE, FALSE, FALSE, NoPosition, 0, 1)

\* 6k1/5ppp/8/8/8/8/8/R3K3 w Q - 0 30: Ra8 mates.
BackRank ==
    BoardOf(<<"6", "k", "1", "/", "5", "p", "p", "p", "/", "8", "/", "8", "/", "8", "/", "8", "/", "8", "/", "R", "3", "K", "3">>,
            "White", FALSE, TRUE, FALSE, FALSE, NoPosition, 0, 30)

\* 7k/8/8/8/8/8/8/K4Q2 w - - 48 60: Qf7 stalemates; the clock is two plies from 50.
Clock48 ==
    BoardOf(<<"7", "k", "/", "8", "/", "8", "/", "8", "/", "8", "/", "8", "/", "8", "/", "K", "4", "Q", "2">>,
            "White", FALSE, FALSE, FALSE, FALSE, NoPosition, 48, 60)

\* 7k/8/8/8/8/8/8/K4Q2 w - - 49 60: the clock is one ply from 50.
Clock49 ==
    BoardOf(<<"7", "k", "/", "8", "/", "8", "/", "8", "/", "8", "/", "8", "/", "8", "/", "K", "4", "Q", "2">>,
            "White", FALSE, FALSE, FALSE, FALSE, NoPosition, 49, 60)

\* 8/2p5/3p4/KP5r/1R2Pp1k/8/6P1/8 b - e3 0 1: Perft3 after e2e4.
Perft3Stepped ==
    BoardOf(<<"8", "/", "2", "p", "5", "/", "3", "p", "4", "/", "K", "P", "5", "r", "/", "1", "R", "2", "P", "p", "1", "k", "/", "8", "/", "6", "P", "1", "/", "8">>,
            "Black", FALSE, FALSE, FALSE, FALSE, new_unchecked(4, 5), 0, 1)

\* r3k2r/p1ppqpb1/bn2pnp1/3PN3/1p2P3/2N2Q1p/PPPBBPPP/R3K2R w KQkq - 0 1: the position of the test perft_2.
Perft2 ==
    BoardOf(<<"r", "3", "k", "2", "r", "/", "p", "1", "p", "p", "q", "p", "b", "1", "/", "b", "n", "2", "p", "n", "p", "1", "/", "3", "P", "N", "3", "/", "1", "p", "2", "P", "3", "/", "2", "N", "2", "Q", "1", "p", "/", "P", "P", "P", "B", "B", "P", "P", "P", "/", "R", "3", "K", "2", "R">>,
            "White", TRUE, TRUE, TRUE, TRUE, NoPosition, 0, 1)

\* r3k2r/Pppp1ppp/1b3nbN/nP6/BBP1P3/q4N2/Pp1P2PP/R2Q1RK1 w kq - 0 1: the position of the test perft_4.
Perft4 ==
    BoardOf(<<"r", "3", "k", "2", "r", "/", "P", "p", "p", "p", "1", "p", "p", "p", "/", "1", "b", "3", "n", "b", "N", "/", "n", "P", "6", "/", "B", "B", "P", "1", "P", "3", "/", "q", "4", "N", "2", "/", "P", "p", "1", "P", "2", "P", "P", "/", "R", "2", "Q", "1", "R", "K", "1">>,
            "White", FALSE, FALSE, TRUE, TRUE, NoPosition, 0, 1)

\* rnbq1k1r/pp1Pbppp/2p5/8/2B5/8/PPP1NnPP/RNBQK2R w KQ - 1 8: the position of the test perft_5.
Perft5 ==
    BoardOf(<<"r", "n", "b", "q", "1", "k", "1", "r", "/", "p", "p", "1", "P", "b", "p", "p", "p", "/", "2", "p", "5", "/", "8", "/", "2", "B", "5", "/", "8", "/", "P", "P", "P", "1", "N", "n", "P", "P", "/", "R", "N", "B", "Q", "K", "2", "R">>,
            "White", TRUE, TRUE, FALSE, FALSE, NoPosition, 1, 8)

\* 8/2p5/3p4/KP5r/1R5k/4p3/6P1/8 w - - 0 2: Perft3 after e2e4 and f4e3, the
\* board make_move leaves after those two calls.
Perft3Captured ==
    BoardOf(<<"8", "/", "2", "p", "5", "/", "3", "p", "4", "/", "K", "P", "5", "r", "/", "1", "R", "5", "k", "/", "4", "p", "3", "/", "6", "P", "1", "/", "8">>,
            "White", FALSE, FALSE, FALSE, FALSE, NoPosition, 0, 2)

\* 7k/8/8/8/8/2p5/1P6/K4Q2 w - - 65534 60: the halfmove counter is one ply
\* from the largest u16.
HalfmoveNearLast ==
    BoardOf(<<"7", "k", "/", "8", "/", "8", "/", "8", "/", "8", "/", "2", "p", "5", "/", "1", "P", "6", "/", "K", "4", "Q", "2">>,
            "White", FALSE, FALSE, FALSE, FALSE, NoPosition, U16Max - 1, 60)

\* 7k/8/8/8/8/2p5/1P6/K4Q2 w - - 65535 60: the halfmove counter is the
\* largest u16.
HalfmoveLast ==
    BoardOf(<<"7", "k", "/", "8", "/", "8", "/", "8", "/", "8", "/", "2", "p", "5", "/", "1", "P", "6", "/", "K", "4", "Q", "2">>,
            "White", FALSE, FALSE, FALSE, FALSE, NoPosition, U16Max, 60)

\* 7k/8/8/8/8/2p5/1P6/K4Q2 b - - 7 65534: the move number is one move from
\* the largest u16.
MoveNumberNearLast ==
    BoardOf(<<"7", "k", "/", "8", "/", "8", "/", "8", "/", "8", "/", "2", "p", "5", "/", "1", "P", "6", "/", "K", "4", "Q", "2">>,
            "Black", FALSE, FALSE, FALSE, FALSE, NoPosition, 7, U16Max - 1)

\* 7k/8/8/8/8/2p5/1P6/K4Q2 b - - 7 65535: the move number is the largest u16.
MoveNumberLast ==
    BoardOf(<<"7", "k", "/", "8", "/", "8", "/", "8", "/", "8", "/", "2", "p", "5", "/", "1", "P", "6", "/", "K", "4", "Q", "2">>,
            "Black", FALSE, FALSE, FALSE, FALSE, NoPosition, 7, U16Max)

\* 7K/8/8/4P1Q/1k/8/8/8 b - - 0 0: the position of the test
\* queen_cant_threaten_king_through_own_pieces; the ranks of the text that
\* are short leave their last files empty.
QueenBehindPawn ==
    BoardOf(<<"7", "K", "/", "8", "/", "8", "/", "4", "P", "1", "Q", "/", "1", "k", "/", "8", "/", "8", "/", "8">>,
            "Black", FALSE, FALSE, FALSE, FALSE, NoPosition, 0, 0)

\* r3k2r/1P6/8/8/8/8/8/4K3 w kq - 0 1: a white pawn can take the rook on a8
\* while Black may still castle on both sides.
PromoteOnCorner ==
    BoardOf(<<"r", "3", "k", "2", "r", "/", "1", "P", "6", "/", "8", "/", "8", "/", "8", "/", "8", "/", "8", "/", "4", "K", "3">>,
            "White", FALSE, FALSE, TRUE, TRUE, NoPosition, 0, 1)

\* 4k3/8/8/8/8/R7/8/R3K3 w Q - 0 1: White may castle queenside and has a
\* second rook on file 0, off the corner.
RookOffCorner ==
    BoardOf(<<"4", "k", "3", "/", "8", "/", "8", "/", "8", "/", "8", "/", "R", "7", "/", "8", "/", "R", "3", "K", "3">>,
            "White", FALSE, TRUE, FALSE, FALSE, NoPosition, 0, 1)

\* 8/8/8/3k4/8/3K4/8/8 w - - 0 1: the kings face each other with one rank
\* between them.
KingsOpposed ==
    BoardOf(<<"8", "/", "8", "/", "8", "/", "3", "k", "4", "/", "8", "/", "3", "K", "4", "/", "8", "/", "8">>,
            "White", FALSE, FALSE, FALSE, FALSE, NoPosition, 0, 1)

\* rn2kbnr/pppbpppp/3q4/3p4/3P4/3Q4/PPPBPPPP/RN2KBNR w KQkq - 6 4: the
\* standard position after 1. d4 d5 2. Qd3 Qd6 3. Bd2 Bd7.
KnightAtHome ==
    BoardOf(<<"r", "n", "2", "k", "b", "n", "r", "/", "p", "p", "p", "b", "p", "p", "p", "p", "/", "3", "q", "4", "/", "3", "p", "4", "/", "3", "P", "4", "/", "3", "Q", "4", "/", "P", "P", "P", "B", "P", "P", "P", "P", "/", "R", "N", "2", "K", "B", "N", "R">>,
            "White", TRUE, TRUE, TRUE, TRUE, NoPosition, 6, 4)

StartBoards ==
    {Standard,
     CastleWhite,
     CastleBlack,
     CastleAttacked,
     CastleLost,
     PromoteWhite,
     PromoteBlack,
     DoubleStep,
     EnPassantSet,
     Perft3,
     BackRank,
     Clock48,
     Clock49,
     Perft3Stepped,
     Perft3Captured,
     Perft2,
     Perft4,
     Perft5,
     HalfmoveNearLast,
     HalfmoveLast,
     MoveNumberNearLast,
     MoveNumberLast,
     PromoteOnCorner,
     RookOffCorner}

(***************************************************************************)
(* The state machine: a front end owning one Board and calling make_move.  *)
(***************************************************************************)
VARIABLES
    board,      \* the Board
    prev,       \* the Board as it was when the last call of make_move began
    last_move,  \* the Move handed to the last call
    result,     \* what the last call returned
    in_play,    \* prev was reached from a start board by calls that returned Ok
    plies,      \* the number of calls that changed the board
    fen,        \* the text read for the initial board state, not yet parsed
    line,       \* the text read for a move, not yet parsed
    state       \* the UIState of the graphical front end

vars == <<board, prev, last_move, result, in_play, plies, fen, line, state>>

\* UIState::Default; no other front end leaves it.
UIDefault == [tag |-> "Default", from |-> NoPosition, to |-> NoPosition]

NoMove == Move(NoPosition, NoPosition, NoKind)

\* The empty text: nothing is read, or the text read was parsed.
NoFen == <<>>

\* No line: none is read, or the line read was dealt with.
NoLine == <<"None">>

\* The squares tried as destination when from holds no piece of the side to
\* move (make_move returns before it reads move.to).
ProbeSquares == {new_unchecked(0, 0), new_unchecked(4, 3), new_unchecked(7, 7)}

\* The destinations and promotion kinds a caller hands to make_move with a
\* move from the square from: every destination when from holds a piece of
\* the side to move, and every promotion kind for a pawn headed to a last rank.
DestinationInputs(b, from) ==
    IF b.tiles[from].color = b.next_to_move THEN Positions ELSE ProbeSquares

PromotionInputs(b, from, to) ==
    IF b.tiles[from].kind = "Pawn" /\ rank(to) \in {0, 7}
    THEN Kinds \cup {NoKind}
    ELSE {NoKind}

(***************************************************************************)
(* Game: the owner of a Board, with its own make_move.                     *)
(***************************************************************************)
Game_new(b) == [board |-> b]

\* Game::missing_promotion.
Game_missing_promotion(game, move_) ==
    IF move_.promotion # NoKind THEN FALSE
    ELSE IF game.board.tiles[move_.from] = None THEN FALSE
    ELSE LET piece == game.board.tiles[move_.from] IN
         piece.kind = "Pawn" /\ rank(move_.to) = home_rank(other(piece.color))

\* Game::all_legal_moves.
Game_all_legal_moves(game) ==
    UNION {LET piece == game.board.tiles[from] IN
           IF piece # None /\ piece.color = game.board.next_to_move
           THEN {Move(from, to, NoKind) : to \in moves(game.board, from)}
           ELSE {} : from \in Positions}

\* The end of Game::make_move_unchecked answering Ongoing where the side to
\* move has no move and is not attacked.
Game_state_stalemate_ongoing(b) ==
    IF get_king_position(b, b.next_to_move) = NoPosition THEN Panicked
    ELSE IF ~\E pos \in Positions :
                 /\ b.tiles[pos] # None
                 /\ b.tiles[pos].color = b.next_to_move
                 /\ \E to \in Positions : yields(b, pos, to)
         THEN IF threatened_at(get_king_position(b, b.next_to_move), {}, {},
                               b.next_to_move, b)
              THEN Checkmate(other(b.next_to_move))
              ELSE Ok("Ongoing")
         ELSE IF b.halfmove_counter = 50 THEN Ok("Draw")
         ELSE Ok("Ongoing")

\* The end of Game::make_move_unchecked: the GameState it returns.
Game_state(b) ==
    IF get_king_position(b, b.next_to_move) = NoPosition THEN Panicked
    ELSE IF ~\E pos \in Positions :
                 /\ b.tiles[pos] # None
                 /\ b.tiles[pos].color = b.next_to_move
                 /\ \E to \in Positions : yields(b, pos, to)
         THEN IF threatened_at(get_king_position(b, b.next_to_move), {}, {},
                               b.next_to_move, b)
              THEN Checkmate(other(b.next_to_move))
              ELSE Ok("Draw")
         ELSE IF b.halfmove_counter = 50 THEN Ok("Draw")
         ELSE Ok("Ongoing")

\* Game::make_move_unchecked: the game it leaves and the value it returns.
Game_make_move_unchecked(game, move_) ==
    LET b             == game.board
        piece         == b.tiles[move_.from]
        current_color == b.next_to_move
        captured      == b.tiles[move_.to]
        t1            == [b.tiles EXCEPT ![move_.from] = None, ![move_.to] = piece]
    IN IF /\ piece.kind = "Pawn"
          /\ (rank(move_.to) = 7 \/ rank(move_.to) = 0)
          /\ move_.promotion \in {NoKind, "King", "Pawn"}
       THEN [game |-> [board |-> [b EXCEPT !.tiles = t1]],
             result |-> Err("RequiresPromotion")]
       ELSE
        LET t2 == IF piece.kind = "Pawn" /\ (rank(move_.to) = 7 \/ rank(move_.to) = 0)
                  THEN [t1 EXCEPT ![move_.to] = Piece(current_color, move_.promotion)]
                  ELSE t1
            delta_file == file(move_.to) - file(move_.from)
            rook_pos   == new_unchecked(IF delta_file > 0 THEN 7 ELSE 0, rank(move_.to))
            rook_dst   == new_unchecked(file(move_.to) + ((-delta_file) \div 2),
                                        rank(move_.to))
            t3 == IF piece.kind = "King" /\ abs(delta_file) = 2
                  THEN [t2 EXCEPT ![rook_pos] = None, ![rook_dst] = t2[rook_pos]]
                  ELSE t2
            b3 == [b EXCEPT !.tiles = t3]
            b4 == IF piece.kind = "King"
                  THEN cannot_castle_queenside(cannot_castle_kingside(b3, current_color),
                                               current_color)
                  ELSE IF piece.kind = "Rook" /\ file(move_.from) = 0
                       THEN cannot_castle_queenside(b3, current_color)
                  ELSE IF piece.kind = "Rook" /\ file(move_.from) = 7
                       THEN cannot_castle_kingside(b3, current_color)
                  ELSE b3
            b5 == IF move_.to = new_unchecked(0, home_rank(other(current_color)))
                  THEN cannot_castle_queenside(b4, other(current_color))
                  ELSE b4
            b6 == IF move_.to = new_unchecked(7, home_rank(other(current_color)))
                  THEN cannot_castle_kingside(b5, other(current_color))
                  ELSE b5
            en_passant == piece.kind = "Pawn" /\ move_.to = b6.en_passant_square
            target     == new_unchecked(file(move_.to),
                                        rank(move_.to) + backwards(current_color))
            taken      == IF en_passant THEN b6.tiles[target] ELSE captured
            b7 == IF en_passant
                  THEN [b6 EXCEPT !.tiles = [b6.tiles EXCEPT ![target] = None]]
                  ELSE b6
            delta_rank == rank(move_.to) - rank(move_.from)
            b8 == IF piece.kind = "Pawn" /\ abs(delta_rank) = 2
                  THEN set_en_passant_square(b7,
                           new_unchecked(file(move_.to),
                                         rank(move_.to) + backwards(current_color)))
                  ELSE set_en_passant_square(b7, NoPosition)
            b9 == switch_next_to_move(b8)
            b10 == IF taken # None \/ piece.kind = "Pawn"
                   THEN reset_halfmove_counter(b9)
                   ELSE b9
        IN [game |-> [board |-> b10], result |-> Game_state(b10)]

\* Game::make_move: the validation, then make_move_unchecked.
Game_make_move(game, move_) ==
    IF game.board.tiles[move_.from] # None
    THEN IF game.board.tiles[move_.from].color # game.board.next_to_move
         THEN [game |-> game, result |-> Err("OtherPlayersTurn")]
         ELSE IF ~yields(game.board, move_.from, move_.to)
              THEN [game |-> game, result |-> Err("IllegalMove")]
              ELSE Game_make_move_unchecked(game, move_)
    ELSE [game |-> game, result |-> Err("NoPieceToMove")]


\* The kinds perft promotes to.
PerftKinds == {"Bishop", "Knight", "Queen", "Rook"}

\* perft's additions; -1 stands for a perft that panicked in an unwrap.
plus(a, c) == IF a = -1 \/ c = -1 THEN -1 ELSE a + c

\* perft of the tests: the number of move sequences of the given length,
\* each move made on a new Game of the board and unwrapped.
RECURSIVE perft(_, _)
perft(game, depth) ==
    IF depth = 0 THEN 1
    ELSE LET made(move_) ==
                 LET g == Game_make_move(Game_new(game.board), move_) IN
                 IF g.result.tag # "Ok" THEN -1 ELSE perft(g.game, depth - 1)
             RECURSIVE kinds(_, _)
             kinds(move_, left) ==
                 IF left = {} THEN 0
                 ELSE LET kind == CHOOSE k \in left : TRUE IN
                      plus(made([move_ EXCEPT !.promotion = kind]),
                           kinds(move_, left \ {kind}))
             RECURSIVE ans(_)
             ans(left) ==
                 IF left = {} THEN 0
                 ELSE LET move_ == CHOOSE m \in left : TRUE IN
                      plus(IF Game_missing_promotion(game, move_)
                           THEN kinds(move_, PerftKinds)
                           ELSE made(move_),
                           ans(left \ {move_}))
         IN ans(Game_all_legal_moves(game))


\* Move::arabic reading the promotion letter of a text of five characters
\* and leaving it out of the move.
arabic_promotion_dropped(text) ==
    IF Len(text) \notin {4, 5} THEN NoMove
    ELSE LET from == Position_from_str(SubSeq(text, 1, 2))
             to   == Position_from_str(SubSeq(text, 3, 4))
             kind == IF Len(text) = 5 THEN Kind_from_name(text[5]) ELSE NoKind
         IN IF from = NoPosition \/ to = NoPosition \/ kind = "ParsingError"
            THEN NoMove
            ELSE Move(from, to, NoKind)

\* Move::arabic on the texts the tests give it: two squares, and a fifth
\* letter naming the kind promoted to.
arabic(text) ==
    IF Len(text) \notin {4, 5} THEN NoMove
    ELSE LET from == Position_from_str(SubSeq(text, 1, 2))
             to   == Position_from_str(SubSeq(text, 3, 4))
             kind == IF Len(text) = 5 THEN Kind_from_name(text[5]) ELSE NoKind
         IN IF from = NoPosition \/ to = NoPosition \/ kind = "ParsingError"
            THEN NoMove
            ELSE Move(from, to, kind)

\* The moves pawn_checkmate makes before it asks for the legal moves.
setup_moves ==
    <<arabic(<<"c", "2", "c", "4">>), arabic(<<"h", "7", "h", "6">>),
      arabic(<<"c", "4", "c", "5">>), arabic(<<"h", "6", "h", "5">>),
      arabic(<<"c", "5", "c", "6">>), arabic(<<"h", "5", "h", "4">>),
      arabic(<<"c", "6", "d", "7">>)>>

\* The moves pawn_checkmate expects.
expected ==
    {arabic(<<"b", "8", "d", "7">>), arabic(<<"c", "8", "d", "7">>),
     arabic(<<"d", "8", "d", "7">>), arabic(<<"e", "8", "d", "7">>)}

\* game.make_move for each of the moves from the i-th on: the game left, and
\* whether every call returned Ok(Ongoing).
RECURSIVE play(_, _, _)
play(game, moves_, i) ==
    IF i > Len(moves_) THEN [game |-> game, ongoing |-> TRUE]
    ELSE LET g == Game_make_move(game, moves_[i]) IN
         IF g.result # Ok("Ongoing") THEN [game |-> g.game, ongoing |-> FALSE]
         ELSE play(g.game, moves_, i + 1)


Init ==
    /\ board \in StartBoards
    /\ prev = board
    /\ last_move = NoMove
    /\ result = NoResult
    /\ in_play = TRUE
    /\ plies = 0
    /\ fen = NoFen
    /\ line = NoLine
    /\ state = UIDefault

\* The board itself was reached by calls that returned Ok: prev was, and the
\* last call did not stop half-way with RequiresPromotion.
board_in_play == in_play /\ result # Err("RequiresPromotion")

\* The front end may call: the last call returned no error that is still to
\* be reported, and the exploration is within its bound; the call after one
\* that returned Checkmate or Draw is explored whatever the bound, the
\* library taking calls on a board whose game has ended.
may_call ==
    /\ result.tag \in {"None", "Ok"}
    /\ plies < MaxPlies \/ result.value \in {"Checkmate", "Draw"}

\* What a call b.make_move(move_) can do. A call that reaches
\* switch_next_to_move with a counter at 65535 panics in a build with
\* overflow checks (the default of a debug build) and goes on with the
\* wrapped counter in a build without them (the default of a release build);
\* every other call does the same in both.
make_move_outcomes(b, move_) ==
    LET r == Board_make_move(b, move_) IN
    IF r.result.tag # "Err" /\ overflows(b)
    THEN {r, [board |-> b, result |-> Panicked]}
    ELSE {r}

\* A call board.make_move(move_).
make_move(move_) ==
    /\ may_call
    /\ \E r \in make_move_outcomes(board, move_) :
       /\ board' = r.board
       /\ result' = r.result
       /\ plies' = IF r.board = board THEN plies ELSE plies + 1
    /\ prev' = board
    /\ last_move' = move_
    /\ in_play' = board_in_play
    /\ UNCHANGED <<fen, line, state>>

\* The front end reports the error and goes on with the board as it is.
report_error ==
    /\ result.tag = "Err"
    /\ result' = NoResult
    /\ prev' = board
    /\ last_move' = NoMove
    /\ in_play' = board_in_play
    /\ UNCHANGED <<board, plies, fen, line, state>>

Next ==
    \/ /\ may_call
       /\ \E from \in Positions :
              \E to \in DestinationInputs(board, from) :
                  \E promotion \in PromotionInputs(board, from, to) :
                      make_move(Move(from, to, promotion))
    \/ report_error

Spec == Init /\ [][Next]_vars

\* The boards the games of the tests and of the Game wrapper start from.
GameBoards ==
    {Standard, CastleWhite, PromoteWhite, EnPassantSet, BackRank, Clock48, Clock49,
     Perft3Captured, QueenBehindPawn}

\* Game::new(board) for one of these boards.
GameInit ==
    /\ board \in GameBoards
    /\ prev = board
    /\ last_move = NoMove
    /\ result = NoResult
    /\ in_play = TRUE
    /\ plies = 0
    /\ fen = NoFen
    /\ line = NoLine
    /\ state = UIDefault

GameSpec == GameInit /\ [][Next]_vars

(***************************************************************************)
(* A caller that goes on making legal moves until a call returns Draw or   *)
(* Checkmate, on a board where few moves are legal: the pawns stand face   *)
(* to face, the bishops are shut in and each king has two squares.         *)
(***************************************************************************)
\* k1b5/1p1p1p1p/1P1P1P1P/8/p7/2p1p1p1/P1P1P1P1/5BK1 w - - 0 40: the kings
\* move between g1 and h1 and between a8 and b8; the one pawn move left is
\* to a3, by the pawn on a2 or by the pawn on a4.
Fortress ==
    BoardOf(<<"k", "1", "b", "5", "/", "1", "p", "1", "p", "1", "p", "1", "p", "/", "1", "P", "1", "P", "1", "P", "1", "P", "/", "8", "/", "p", "7", "/", "2", "p", "1", "p", "1", "p", "1", "/", "P", "1", "P", "1", "P", "1", "P", "1", "/", "5", "B", "K", "1">>,
            "White", FALSE, FALSE, FALSE, FALSE, NoPosition, 0, 40)

EndInit ==
    /\ board = Fortress
    /\ prev = board
    /\ last_move = NoMove
    /\ result = NoResult
    /\ in_play = TRUE
    /\ plies = 0
    /\ fen = NoFen
    /\ line = NoLine
    /\ state = UIDefault

\* The game has ended: the last call returned Draw or Checkmate.
ended == result.value \in {"Draw", "Checkmate"}

\* A call board.make_move(move_) that returns Ok, made while no call has
\* returned Draw or Checkmate.
successful_move(move_) ==
    /\ ~ended
    /\ \E r \in make_move_outcomes(board, move_) :
           /\ r.result.tag = "Ok"
           /\ board' = r.board
           /\ result' = r.result
    /\ prev' = board
    /\ last_move' = move_
    /\ in_play' = board_in_play
    /\ UNCHANGED <<plies, fen, line, state>>

EndNext ==
    \E from \in Positions :
        /\ board.tiles[from].color = board.next_to_move
        /\ \E to \in Positions : successful_move(Move(from, to, NoKind))

\* A move is left to make: the game has not ended and the player to move
\* has a legal move.  This is ENABLED <<EndNext>>_vars as a state predicate.
can_go_on == ~ended /\ has_moves(board)

\* The caller goes on moving while a move is left to make: the loop of the
\* front end asks for the next move after every move that does not end the
\* game.  This is WF_vars(EndNext) written out, with can_go_on for its
\* enabledness.
caller_keeps_moving == []<>(~can_go_on) \/ []<><<EndNext>>_vars

EndSpec == EndInit /\ [][EndNext]_vars /\ caller_keeps_moving

(***************************************************************************)
(* The front end reading the initial board state: a text is read, handed   *)
(* to Board::from_fen, and read again when from_fen fails.                 *)
(***************************************************************************)
\* The six fields of the texts read.
PiecesInputs ==
    {<<"4", "k", "3", "/", "8", "/", "8", "/", "8", "/", "8", "/", "8", "/", "8", "/", "4", "K", "3">>,
     <<"4", "k", "3", "/", "8", "/", "8", "/", "8", "/", "8", "/", "8", "/", "8", "/", "8">>,
     <<"8", "/", "8", "/", "8", "/", "8", "/", "8", "/", "8", "/", "8", "/", "4", "K", "3">>,
     <<"4", "k", "3", "/", "8", "/", "8", "/", "8", "/", "8", "/", "8", "/", "8", "/", "3", "K", "K", "3">>,
     <<"4", "k", "3", "/", "8", "/", "8", "/", "8", "/", "8", "/", "8", "/", "8", "/", "4", "X", "3">>,
     <<"4", "k", "3", "/", "8", "/", "8", "/", "8", "/", "8", "/", "8", "/", "8", "/", "8", "K">>,
     <<"7", "K", "/", "8", "/", "8", "/", "4", "P", "1", "Q", "/", "1", "k", "/", "8", "/", "8", "/", "8">>,
     <<"r", "3", "k", "2", "r", "/", "8", "/", "8", "/", "8", "/", "4", "P", "p", "2", "/", "8", "/", "8", "/", "R", "3", "K", "2", "R">>}

NextToMoveInputs == {<<"w">>, <<"b">>, <<"x">>}

CastlingInputs == {<<"-">>, <<"K", "Q", "k", "q">>, <<"q", "K">>, <<"K", "x">>}

EnPassantInputs == {<<"-">>, <<"e", "3">>, <<"e", "9">>, <<"i", "3">>}

HalfmoveCounterInputs == {<<"0">>, <<"4", "9">>, <<"x">>}

MoveNumberInputs == {<<"1">>, <<"0", "0", "7">>, <<"x">>}

\* The fields with one space between them.
RECURSIVE join(_)
join(fields) ==
    IF fields = <<>> THEN <<>>
    ELSE IF Len(fields) = 1 THEN fields[1]
    ELSE fields[1] \o <<" ">> \o join(Tail(fields))

\* The texts read: every combination of the fields, and every text cut off
\* after some of its fields.
FenInputs ==
    {join(SubSeq(<<p, n, c, e, h, m>>, 1, k)) :
        p \in PiecesInputs, n \in NextToMoveInputs, c \in CastlingInputs,
        e \in EnPassantInputs, h \in HalfmoveCounterInputs, m \in MoveNumberInputs,
        k \in 1..6}

FenInit ==
    /\ board = NoBoard
    /\ prev = NoBoard
    /\ last_move = NoMove
    /\ result = NoResult
    /\ in_play = FALSE
    /\ plies = 0
    /\ fen = NoFen
    /\ line = NoLine
    /\ state = UIDefault

\* A line is read.
read_line ==
    /\ fen = NoFen
    /\ result = NoResult
    /\ fen' \in FenInputs
    /\ UNCHANGED <<board, prev, last_move, result, in_play, plies, line, state>>

\* Board::from_fen(&fen); the board it returns is the game's.
read_board ==
    /\ fen # NoFen
    /\ result = NoResult
    /\ LET r == from_fen(fen) IN
       /\ board' = r.board
       /\ result' = r.result
    /\ UNCHANGED <<prev, last_move, in_play, plies, fen, line, state>>

\* The error of from_fen is printed and the text cleared for the next line.
report_fen_error ==
    /\ fen # NoFen
    /\ result.tag = "Err"
    /\ result' = NoResult
    /\ fen' = NoFen
    /\ UNCHANGED <<board, prev, last_move, in_play, plies, line, state>>

FenNext ==
    \/ read_line
    \/ read_board
    \/ report_fen_error

FenSpec == FenInit /\ [][FenNext]_vars

(***************************************************************************)
(* The texts handed to Move::arabic: by the tests as they are, by the      *)
(* front end for each line it reads that is not a square.                  *)
(***************************************************************************)
\* The characters tried at each of six places of the text.
ArabicChars ==
    <<{"a", "h", "i", "4"}, {"1", "2", "8", "9", "a"}, {"a", "h", "u"},
      {"3", "8", "0"}, {"q", "n", "r", "b", "k", "p", "l", "Q", " "}, {"q", " "}>>

\* The texts: up to six characters, with or without a space before them.
ArabicInputs ==
    {lead \o SubSeq(<<c1, c2, c3, c4, c5, c6>>, 1, k) :
        lead \in {<<>>, <<" ">>},
        c1 \in ArabicChars[1], c2 \in ArabicChars[2], c3 \in ArabicChars[3],
        c4 \in ArabicChars[4], c5 \in ArabicChars[5], c6 \in ArabicChars[6],
        k \in 0..6}

ArabicInit ==
    /\ board = Standard
    /\ prev = board
    /\ last_move = NoMove
    /\ result = NoResult
    /\ in_play = TRUE
    /\ plies = 0
    /\ fen = NoFen
    /\ line = NoLine
    /\ state = UIDefault

\* A text is given.
read_move ==
    /\ line = NoLine
    /\ line' \in ArabicInputs
    /\ UNCHANGED <<board, prev, last_move, result, in_play, plies, fen, state>>

\* Move::arabic(line): the move, or the error.
parse_move ==
    /\ line # NoLine
    /\ result = NoResult
    /\ LET m == arabic(line) IN
       /\ last_move' = m
       /\ result' = IF m = NoMove THEN Err("ParsingError") ELSE Ok("Move")
    /\ UNCHANGED <<board, prev, in_play, plies, fen, line, state>>

\* The answer is taken and the next text awaited.
next_move ==
    /\ line # NoLine
    /\ result # NoResult
    /\ line' = NoLine
    /\ result' = NoResult
    /\ last_move' = NoMove
    /\ UNCHANGED <<board, prev, in_play, plies, fen, state>>

ArabicNext ==
    \/ read_move
    \/ parse_move
    \/ next_move

ArabicSpec == ArabicInit /\ [][ArabicNext]_vars

(***************************************************************************)
(* Games watched for their kings: the same calls of make_move, from boards *)
(* on which the kings face each other or may castle.                       *)
(***************************************************************************)
KingBoards == {KingsOpposed, KnightAtHome, CastleWhite, CastleBlack, CastleAttacked, BackRank}

KingInit ==
    /\ board \in KingBoards
    /\ prev = board
    /\ last_move = NoMove
    /\ result = NoResult
    /\ in_play = TRUE
    /\ plies = 0
    /\ fen = NoFen
    /\ line = NoLine
    /\ state = UIDefault

KingSpec == KingInit /\ [][Next]_vars

(***************************************************************************)
(* The graphical front end: the systems pick_up_piece, put_down_piece,     *)
(* cancel_move and get_pawn_promotion, acting on the Board and the UIState *)
(* they share.  A step is one system answering one event.                  *)
(***************************************************************************)
\* UIState::PickedUpPiece(entity), the entity being the sprite whose
\* Position is from.
PickedUpPiece(from) == [tag |-> "PickedUpPiece", from |-> from, to |-> NoPosition]

PromotionAsked(from, to) == [tag |-> "PromotionAsked", from |-> from, to |-> to]

\* The kinds of the buttons of the promotion element.
PawnPromotionOptions == {"Bishop", "Knight", "Queen", "Rook"}

\* The boards of the graphical front end: Board::default(), and a board of
\* a later stage of a game, with a pawn one step from the far rank.
GuiBoards == {Standard, PromoteWhite}

GuiInit ==
    /\ board \in GuiBoards
    /\ prev = board
    /\ last_move = NoMove
    /\ result = NoResult
    /\ in_play = TRUE
    /\ plies = 0
    /\ fen = NoFen
    /\ line = NoLine
    /\ state = UIDefault

\* pick_up_piece picking up the piece of either colour.
pick_up_piece_either_colour(pos) ==
    /\ state = UIDefault
    /\ board.tiles[pos] # None
    /\ state' = PickedUpPiece(pos)
    /\ UNCHANGED <<board, prev, last_move, result, in_play, plies, fen, line>>

\* The sprite on pos is clicked.
pick_up_piece(pos) ==
    /\ state = UIDefault
    /\ board.tiles[pos].color = board.next_to_move
    /\ state' = PickedUpPiece(pos)
    /\ UNCHANGED <<board, prev, last_move, result, in_play, plies, fen, line>>

\* The square to is clicked while a piece is held; found is the answer of
\* the query for the Position of the held sprite.  An Err of make_move is
\* dropped: the piece stays held and nothing is reported.
put_down_piece(to, found) ==
    /\ state.tag = "PickedUpPiece"
    /\ LET from  == state.from
           move_ == Move(from, to, NoKind)
       IN IF ~found \/ to = from
          THEN /\ state' = UIDefault
               /\ UNCHANGED <<board, prev, last_move, result, in_play, plies, fen, line>>
          ELSE IF missing_promotion(board, move_)
          THEN /\ state' = PromotionAsked(from, to)
               /\ UNCHANGED <<board, prev, last_move, result, in_play, plies, fen, line>>
          ELSE /\ plies < MaxPlies
               /\ \E r \in make_move_outcomes(board, move_) :
                      /\ board' = r.board
                      /\ plies' = IF r.board = board THEN plies ELSE plies + 1
                      /\ IF r.result.tag = "Err"
                         THEN UNCHANGED <<prev, last_move, result, in_play, state>>
                         ELSE /\ state' = IF r.result.tag = "Ok" THEN UIDefault ELSE state
                              /\ result' = r.result
                              /\ prev' = board
                              /\ last_move' = move_
                              /\ in_play' = board_in_play
               /\ UNCHANGED <<fen, line>>

\* The right mouse button or the escape key is pressed.
cancel_move ==
    /\ state' = UIDefault
    /\ UNCHANGED <<board, prev, last_move, result, in_play, plies, fen, line>>

\* A button of the promotion element is clicked.  The assert_eq! panics
\* before the move is built; the unwrap panics on an Err of make_move.
get_pawn_promotion(chosen) ==
    /\ state.tag = "PromotionAsked"
    /\ LET move_ == Move(state.from, state.to, chosen) IN
       IF board.tiles[state.from].color # board.next_to_move
       THEN /\ result' = Panicked
            /\ last_move' = NoMove
            /\ UNCHANGED <<board, prev, in_play, plies, fen, line, state>>
       ELSE /\ \E r \in make_move_outcomes(board, move_) :
                   /\ board' = r.board
                   /\ result' = IF r.result.tag = "Ok" THEN r.result ELSE Panicked
                   /\ plies' = IF r.board = board THEN plies ELSE plies + 1
            /\ state' = UIDefault
            /\ prev' = board
            /\ last_move' = move_
            /\ in_play' = board_in_play
            /\ UNCHANGED <<fen, line>>

\* The systems run for as long as none has panicked.
GuiNext ==
    /\ result # Panicked
    /\ \/ \E pos \in Positions : pick_up_piece(pos)
       \/ \E to \in Positions : \E found \in BOOLEAN : put_down_piece(to, found)
       \/ cancel_move
       \/ \E chosen \in PawnPromotionOptions : get_pawn_promotion(chosen)

GuiSpec == GuiInit /\ [][GuiNext]_vars

(***************************************************************************)
(* The last call, as the properties below read it.                         *)
(***************************************************************************)
called == last_move # NoMove

\* The piece the last call was asked to move, and the colour to move then.
moved_piece == prev.tiles[last_move.from]

mover == prev.next_to_move

\* The last call's (from, to) pair as all_legal_moves would yield it.
as_yielded == Move(last_move.from, last_move.to, NoKind)

PromotionKinds == {"Bishop", "Knight", "Queen", "Rook"}

\* The last call moved a king two files.
castled_last ==
    /\ called
    /\ result.tag = "Ok"
    /\ moved_piece.kind = "King"
    /\ abs(file(last_move.to) - file(last_move.from)) = 2

\* The square the king crossed in the last call.
crossed == (last_move.from + last_move.to) \div 2

\* The side to move on the board b has a legal move.
can_move(b) == \E m \in all_legal_moves(b) : TRUE

(***************************************************************************)
(* C1. Check-blocking: on a board reached by successful calls, after a     *)
(* call that returned Ok the king of the colour that just moved is not     *)
(* attacked by any piece of the other colour.                              *)
(***************************************************************************)
C1_CheckBlocking ==
    (called /\ in_play /\ result.tag = "Ok")
        => ~threatened_at(get_king_position(board, mover), {}, {}, mover, board)

(***************************************************************************)
(* C2. all_legal_moves and make_move agree: on a board reached by          *)
(* successful calls, a move all_legal_moves yields (its promotion set to   *)
(* Bishop, Knight, Queen or Rook when missing_promotion reports it         *)
(* missing) is answered with Ok, and a (from, to) pair it does not yield   *)
(* is answered with an error.                                              *)
(***************************************************************************)
C2_LegalMovesAgree ==
    (called /\ in_play) =>
        /\ (/\ as_yielded \in all_legal_moves(prev)
            /\ IF missing_promotion(prev, as_yielded)
               THEN last_move.promotion \in PromotionKinds
               ELSE last_move.promotion = NoKind)
              => result.tag = "Ok"
        /\ as_yielded \notin all_legal_moves(prev) => result.tag = "Err"

(***************************************************************************)
(* C3. make_move validation: NoPieceToMove when move.from is empty,        *)
(* OtherPlayersTurn when the piece on it is not of the side to move,       *)
(* IllegalMove when move.to is not a destination of that piece; in all     *)
(* three cases the whole board is left as it was.                          *)
(***************************************************************************)
C3_Validation ==
    called =>
        /\ moved_piece = None => result = Err("NoPieceToMove")
        /\ (moved_piece # None /\ moved_piece.color # mover)
              => result = Err("OtherPlayersTurn")
        /\ (moved_piece # None /\ moved_piece.color = mover
            /\ ~yields(prev, last_move.from, last_move.to))
              => result = Err("IllegalMove")
        /\ result \in {Err("NoPieceToMove"), Err("OtherPlayersTurn"), Err("IllegalMove")}
              => board = prev

\* A piece of the side to move was asked to go where it cannot.
C3_Witness ==
    /\ called
    /\ moved_piece.color = mover
    /\ result = Err("IllegalMove")
    /\ board = prev

(***************************************************************************)
(* C4. Promotion requirement: an otherwise legal pawn move to the far rank *)
(* fails with RequiresPromotion when move.promotion is absent, King or     *)
(* Pawn, and succeeds when it is Rook, Knight, Bishop or Queen.            *)
(***************************************************************************)
C4_PromotionRequired ==
    (/\ called
     /\ moved_piece = Piece(mover, "Pawn")
     /\ yields(prev, last_move.from, last_move.to)
     /\ rank(last_move.to) = home_rank(other(mover)))
        => /\ last_move.promotion \in {NoKind, "King", "Pawn"}
                => result = Err("RequiresPromotion")
           /\ last_move.promotion \in PromotionKinds => result.tag = "Ok"

\* A pawn was sent to the far rank with the promotion kind King.
C4_Witness ==
    /\ called
    /\ moved_piece = Piece(mover, "Pawn")
    /\ rank(last_move.to) = home_rank(other(mover))
    /\ last_move.promotion = "King"
    /\ result = Err("RequiresPromotion")

(***************************************************************************)
(* C5. Terminal classification after a successful call: Checkmate exactly  *)
(* when the new side to move has no legal move and its king is attacked,   *)
(* the winner being the colour that just moved; Draw when it has no legal  *)
(* move and its king is not attacked; otherwise Normal unless the halfmove *)
(* counter is 50.                                                          *)
(***************************************************************************)
C5_TerminalClassification ==
    (called /\ result.tag = "Ok") =>
        /\ result.value = "Checkmate" <=> (~can_move(board) /\ is_in_check(board))
        /\ result.value = "Checkmate" => result.winner = mover
        /\ (~can_move(board) /\ ~is_in_check(board)) => result = Ok("Draw")
        /\ (can_move(board) /\ board.halfmove_counter # 50) => result = Ok("Normal")

\* A call mated.
C5_Witness ==
    /\ called
    /\ result = Checkmate(mover)
    /\ ~can_move(board)
    /\ is_in_check(board)

(***************************************************************************)
(* C6. 50-move draw: a successful call that leaves the halfmove counter at *)
(* exactly 50 and the new side to move with a legal move returns Draw.     *)
(***************************************************************************)
C6_FiftyMoveDraw ==
    (/\ called
     /\ result.tag = "Ok"
     /\ board.halfmove_counter = 50
     /\ can_move(board))
        => result = Ok("Draw")

\* The counter reached 50 with moves left, and the call returned Draw.
C6_Witness ==
    /\ called
    /\ board.halfmove_counter = 50
    /\ can_move(board)
    /\ result = Ok("Draw")

(***************************************************************************)
(* C7. Castling legality: a two-file king move is yielded, and so made,    *)
(* only if that colour's right for the side is set, the king's square is   *)
(* not attacked, and neither the square it crosses nor the one it lands on *)
(* is attacked; and no call sets a right that was cleared.                 *)
(***************************************************************************)
C7_CastlingLegality ==
    /\ castled_last =>
           /\ IF file(last_move.to) > file(last_move.from)
              THEN can_castle_kingside(prev, mover)
              ELSE can_castle_queenside(prev, mover)
           /\ ~threatened_at(last_move.from, {}, {}, mover, prev)
           /\ ~threatened_at(crossed, {}, {}, mover, prev)
           /\ ~threatened_at(last_move.to, {}, {}, mover, prev)
    /\ \A color \in Colors :
           /\ can_castle_kingside(board, color) => can_castle_kingside(prev, color)
           /\ can_castle_queenside(board, color) => can_castle_queenside(prev, color)

\* A king castled, and with that lost both rights.
C7_Witness ==
    /\ castled_last
    /\ ~can_castle_kingside(board, mover)
    /\ ~can_castle_queenside(board, mover)

(***************************************************************************)
(* C8. Castling needs empty king squares: a castling destination is        *)
(* yielded, and make_move takes it, only when the square the king crosses  *)
(* and the square it lands on are both empty.                              *)
(***************************************************************************)
C8_CastlingOntoEmpty ==
    castled_last => (prev.tiles[crossed] = None /\ prev.tiles[last_move.to] = None)

(***************************************************************************)
(* C9. Queenside castling needs the knight square empty: the king's        *)
(* generator yields the queenside castling destination, and make_move      *)
(* takes it, only when the square three files from the king towards the    *)
(* rook is empty.                                                          *)
(***************************************************************************)
C9_QueensideKnightSquare ==
    (castled_last /\ file(last_move.to) < file(last_move.from))
        => prev.tiles[new_unchecked(file(last_move.from) - 3, rank(last_move.from))] = None

(***************************************************************************)
(* C10. En-passant target lifecycle: after a successful call the target is *)
(* set exactly when the moved piece is a pawn that advanced two ranks, and *)
(* is then the square it passed over; after any other successful call it   *)
(* is None.                                                                *)
(***************************************************************************)
C10_EnPassantTarget ==
    (called /\ result.tag = "Ok") =>
        IF moved_piece.kind = "Pawn" /\ abs(rank(last_move.to) - rank(last_move.from)) = 2
        THEN board.en_passant_square =
                 new_unchecked(file(last_move.from),
                               (rank(last_move.from) + rank(last_move.to)) \div 2)
        ELSE board.en_passant_square = NoPosition

\* A target that was set is gone after the next successful call.
C10_Witness ==
    /\ called
    /\ result.tag = "Ok"
    /\ prev.en_passant_square # NoPosition
    /\ board.en_passant_square = NoPosition

(***************************************************************************)
(* C11. Castling-rights invalidation: after a successful call a right is   *)
(* set exactly when it was set before and the call did not clear it; a     *)
(* king move clears both rights of the mover, a rook move from file 0 the  *)
(* mover's queenside right and from file 7 the mover's kingside right, and *)
(* a move onto the opponent's file-0 or file-7 home-rank corner the        *)
(* opponent's queenside or kingside right.                                 *)
(***************************************************************************)
\* The last call is one that clears the kingside right of the colour.
clears_kingside(color) ==
    \/ /\ color = mover
       /\ \/ moved_piece.kind = "King"
          \/ (moved_piece.kind = "Rook" /\ file(last_move.from) = 7)
    \/ /\ color = other(mover)
       /\ last_move.to = new_unchecked(7, home_rank(color))

\* The last call is one that clears the queenside right of the colour.
clears_queenside(color) ==
    \/ /\ color = mover
       /\ \/ moved_piece.kind = "King"
          \/ (moved_piece.kind = "Rook" /\ file(last_move.from) = 0)
    \/ /\ color = other(mover)
       /\ last_move.to = new_unchecked(0, home_rank(color))

\* C11: after a successful call each right is set exactly when it was set
\* before and the call was none of those that clear it.
C11_CastlingRights ==
    (called /\ result.tag = "Ok") =>
        \A color \in Colors :
            /\ can_castle_kingside(board, color)
                  <=> (can_castle_kingside(prev, color) /\ ~clears_kingside(color))
            /\ can_castle_queenside(board, color)
                  <=> (can_castle_queenside(prev, color) /\ ~clears_queenside(color))

\* A rook took the rook on the opponent's queenside corner, and the opponent
\* lost that right while keeping the other.
C11_Witness ==
    /\ called
    /\ result.tag = "Ok"
    /\ moved_piece.kind = "Rook"
    /\ last_move.to = new_unchecked(0, home_rank(other(mover)))
    /\ can_castle_queenside(prev, other(mover))
    /\ ~can_castle_queenside(board, other(mover))
    /\ can_castle_kingside(board, other(mover))

\* The board is one the engine holds: a start board, parsed from its
\* notation, or the board left by a call that returned Ok on such a board.
held == in_play /\ result.tag \in {"None", "Ok"}

parsed == fen # NoFen /\ result # NoResult

\* The fields of the text read.
fields == split_ascii_whitespace(fen)

\* The errors naming the six fields, in the order of the fields.
FenErrors ==
    <<"FenError(Pieces)", "FenError(NextToMove)", "FenError(Castling)",
      "FenError(EnPassant)", "FenError(HalfmoveCounter)", "FenError(MoveNumber)">>

\* Field i of the text read is missing, or malformed: a placement with a
\* letter that names no piece, a side other than w and b, a castling letter
\* other than KQkq-, an en-passant field that is neither - nor a square, a
\* clock that is not a run of decimal digits.
faulty(i) ==
    \/ Len(fields) < i
    \/ LET t       == fields[i]
           among(s) == \A k \in 1..Len(t) : \E j \in 1..Len(s) : s[j] = t[k]
       IN CASE i = 1 -> \E k \in 1..Len(t) :
                            /\ t[k] # "/"
                            /\ ~\E j \in 1..8 : Digits[j] = t[k]
                            /\ Kind_from_name(t[k]) = "ParsingError"
            [] i = 2 -> t \notin {<<"w">>, <<"b">>}
            [] i = 3 -> ~among(<<"K", "Q", "k", "q", "-">>)
            [] i = 4 -> /\ t # <<"-">>
                        /\ ~(/\ Len(t) = 2
                             /\ \E j \in 1..8 : FileLetters[j] = t[1]
                             /\ \E j \in 1..8 : Digits[j] = t[2])
            [] OTHER -> t = <<>> \/ ~among(DecimalDigits)

\* The first field that is missing or malformed; 0 when there is none.
first_fault ==
    IF \E i \in 1..6 : faulty(i)
    THEN CHOOSE i \in 1..6 : faulty(i) /\ \A j \in 1..(i - 1) : ~faulty(j)
    ELSE 0

\* C13: from_fen fails with the FenError naming the field that is missing or
\* malformed: Pieces for a placement with an unknown piece letter, NextToMove,
\* Castling, EnPassant for a malformed en-passant square, HalfmoveCounter and
\* MoveNumber for clocks that are not numbers.
C13_FieldErrors ==
    (parsed /\ first_fault # 0) => result = Err(FenErrors[first_fault])

\* The squares of b on which a king of the colour stands.
kings(b, color) == {p \in Positions : b.tiles[p] = Piece(color, "King")}

\* The placement field of the text read has no letter of the colour's king.
kingless(color) ==
    /\ Len(fields) >= 1
    /\ ~\E k \in 1..Len(fields[1]) :
           fields[1][k] = (IF color = "White" THEN "K" ELSE "k")

\* C14: every board from_fen accepts has exactly one white king and exactly
\* one black king, and a text with nothing else wrong whose placement has no
\* king of some colour is rejected with InvalidGameState.
C14_KingsAtConstruction ==
    parsed =>
        /\ result = Ok("Board") =>
               \A color \in Colors : Cardinality(kings(board, color)) = 1
        /\ (first_fault = 0 /\ \E color \in Colors : kingless(color)) =>
               result = Err("InvalidGameState")

\* C15: on every board reached by make_move calls exactly one king of each
\* colour stands, no call captures or removes a king, and get_king_position
\* finds the king of either colour.
C15_KingsUnderPlay ==
    in_play =>
        \A color \in Colors :
            /\ Cardinality(kings(board, color)) = 1
            /\ get_king_position(board, color) # NoPosition

\* C16: from the standard opening position the sequences of legal moves of
\* length 1, 2 and 3, a promoting move counted once for each of Bishop,
\* Knight, Queen and Rook, number exactly 20, 400 and 8902.
C16_Perft ==
    (board = Standard /\ ~called /\ plies = 0) =>
        /\ perft(Game_new(board), 1) = 20
        /\ perft(Game_new(board), 2) = 400
        /\ perft(Game_new(board), 3) = 8902

\* The game starts from the standard position, whose twenty first moves are
\* the sixteen pawn moves and the four knight moves.
C16_Witness ==
    /\ board = Standard
    /\ ~called
    /\ plies = 0
    /\ Cardinality(Game_all_legal_moves(Game_new(board))) = 20
    /\ Cardinality({m \in Game_all_legal_moves(Game_new(board)) :
                       board.tiles[m.from].kind = "Knight"}) = 4

corresponding(r) == IF r = Ok("Normal") THEN Ok("Ongoing") ELSE r

\* C18: Game::make_move and Board::make_move return the same error or the
\* corresponding state for every board and move and leave the same board,
\* and Game::all_legal_moves and Game::missing_promotion equal the Board
\* operations of the same name. (A call that returns an error without
\* touching the board leaves the board whose moves were compared before it.)
C18_GameEquivalence ==
    /\ called =>
           LET g == Game_make_move(Game_new(prev), last_move) IN
           /\ g.game.board = board
           /\ g.result = corresponding(result)
           /\ \A move_ \in {last_move, as_yielded} :
                  Game_missing_promotion(Game_new(prev), move_)
                      = missing_promotion(prev, move_)
    /\ (result.tag # "Err" \/ board # prev) =>
           Game_all_legal_moves(Game_new(board)) = all_legal_moves(board)

\* A call of Board::make_move returned Normal where Game::make_move returns
\* Ongoing, both leaving the same board, on which the side to move has moves.
C18_Witness ==
    /\ called
    /\ result = Ok("Normal")
    /\ Game_make_move(Game_new(prev), last_move).result = Ok("Ongoing")
    /\ Game_make_move(Game_new(prev), last_move).game.board = board
    /\ \E m \in all_legal_moves(board) : TRUE

\* The move of the last call is one all_legal_moves yields for the board it
\* was made on, whatever its promotion field.
legal_pair ==
    /\ moved_piece # None
    /\ moved_piece.color = mover
    /\ yields(prev, last_move.from, last_move.to)

\* C19: for every legal pair of squares with no promotion given,
\* missing_promotion is true exactly when make_move fails with
\* RequiresPromotion, which is exactly when the moved piece is a pawn and the
\* destination the far rank; missing_promotion is false whenever the
\* promotion is given or the square moved from is empty.
C19_MissingPromotion ==
    called =>
        /\ (legal_pair /\ last_move.promotion = NoKind) =>
               /\ missing_promotion(prev, last_move)
                      <=> result = Err("RequiresPromotion")
               /\ missing_promotion(prev, last_move)
                      <=> /\ moved_piece.kind = "Pawn"
                          /\ rank(last_move.to) = home_rank(other(mover))
        /\ last_move.promotion # NoKind => ~missing_promotion(prev, last_move)
        /\ moved_piece = None => ~missing_promotion(prev, last_move)

\* A pawn was moved to the far rank with no promotion given: missing_promotion
\* said so and the call failed with RequiresPromotion.
C19_Witness ==
    /\ called
    /\ legal_pair
    /\ last_move.promotion = NoKind
    /\ moved_piece.kind = "Pawn"
    /\ missing_promotion(prev, last_move)
    /\ result = Err("RequiresPromotion")

\* The kinds on a colour's first row, by file.
back_row == <<"Rook", "Knight", "Bishop", "Queen", "King", "Bishop", "Knight", "Rook">>

\* The Board the test default_board expects of Board::default(), row by row.
default_board ==
    [tiles |-> [p \in Positions |->
                   CASE rank(p) = 0 -> Piece("Black", back_row[file(p) + 1])
                     [] rank(p) = 1 -> Piece("Black", "Pawn")
                     [] rank(p) = 6 -> Piece("White", "Pawn")
                     [] rank(p) = 7 -> Piece("White", back_row[file(p) + 1])
                     [] OTHER -> None],
     next_to_move |-> "White",
     can_castle_white_kingside |-> TRUE,
     can_castle_white_queenside |-> TRUE,
     can_castle_black_kingside |-> TRUE,
     can_castle_black_queenside |-> TRUE,
     en_passant_square |-> NoPosition,
     halfmove_counter |-> 0,
     move_number |-> 1]

\* The game is at its start on Board::default().
at_default == board = Standard /\ ~called /\ plies = 0

\* The king and the two rooks of the colour stand on the row.
king_and_rooks_on(color, row) ==
    /\ board.tiles[new_unchecked(4, row)] = Piece(color, "King")
    /\ board.tiles[new_unchecked(0, row)] = Piece(color, "Rook")
    /\ board.tiles[new_unchecked(7, row)] = Piece(color, "Rook")

\* C20 as stated: Board::default() is the standard layout with White to move,
\* all four castling rights, no en-passant target, halfmove counter 0 and
\* move number 1, and each colour's king and rooks stand on its home rank,
\* rank index 0 for White and rank index 7 for Black.
C20_HomeRanksAsStated ==
    at_default =>
        /\ board = default_board
        /\ home_rank("White") = 0 /\ king_and_rooks_on("White", 0)
        /\ home_rank("Black") = 7 /\ king_and_rooks_on("Black", 7)

\* C20, amended: Board::default() is the standard layout with White to move,
\* all four castling rights, no en-passant target, halfmove counter 0 and
\* move number 1, and each colour's king and rooks stand on its home rank,
\* rank index 7 for White and rank index 0 for Black.
C20_DefaultBoard ==
    at_default =>
        /\ board = default_board
        /\ home_rank("White") = 7 /\ king_and_rooks_on("White", 7)
        /\ home_rank("Black") = 0 /\ king_and_rooks_on("Black", 0)

\* The game is at its start: the white king stands on e1, rank index 7, and
\* the notation of the board is the text Board::default() parses.
C20_Witness ==
    /\ at_default
    /\ board.tiles[Position_from_str(<<"e", "1">>)] = Piece("White", "King")
    /\ rank(Position_from_str(<<"e", "1">>)) = 7
    /\ from_fen(to_fen(board)).board = default_board

\* Move::arabic has answered the text given.
arabic_answered == line # NoLine /\ result # NoResult

\* The two characters are a file letter a-h and a rank digit 1-8.
names_square(c, d) ==
    /\ \E n \in 1..8 : FileLetters[n] = c
    /\ \E n \in 1..8 : Digits[n] = d

\* The square the two characters name: the file counted from a, the rank
\* from 8 downwards.
square_named(c, d) ==
    new_unchecked((CHOOSE n \in 1..8 : FileLetters[n] = c) - 1, 8 - digit_value(d))

\* The text is two squares, with or without one letter naming a kind.
move_text ==
    /\ Len(line) \in {4, 5}
    /\ names_square(line[1], line[2])
    /\ names_square(line[3], line[4])
    /\ Len(line) = 5 => Kind_from_name(line[5]) # "ParsingError"

Bookkeeping(b) ==
    <<b.next_to_move, b.can_castle_white_kingside, b.can_castle_white_queenside,
      b.can_castle_black_kingside, b.can_castle_black_queenside,
      b.en_passant_square, b.halfmove_counter, b.move_number>>

\* C22: when make_move fails with RequiresPromotion the pawn is already
\* relocated (the square moved from is empty, the destination holds the
\* unpromoted pawn, whatever stood there is gone, no other square changed),
\* while next_to_move, the four castling rights, the en-passant target, the
\* halfmove counter and the move number are unchanged; Game::make_move
\* leaves the same board.
C22_PartialMutation ==
    (called /\ result = Err("RequiresPromotion")) =>
        /\ moved_piece = Piece(mover, "Pawn")
        /\ board.tiles[last_move.from] = None
        /\ board.tiles[last_move.to] = moved_piece
        /\ \A p \in Positions \ {last_move.from, last_move.to} :
               board.tiles[p] = prev.tiles[p]
        /\ Bookkeeping(board) = Bookkeeping(prev)
        /\ Game_make_move(Game_new(prev), last_move).game.board = board

\* A pawn took a piece on the far rank with no promotion given: the call
\* failed, and the pawn stands where the piece stood.
C22_Witness ==
    /\ called
    /\ result = Err("RequiresPromotion")
    /\ prev.tiles[last_move.to] # None
    /\ board.tiles[last_move.to] = Piece(mover, "Pawn")
    /\ board.next_to_move = mover

\* The last call moved a pawn to the far rank of its colour.
pawn_to_far_rank ==
    /\ moved_piece = Piece(mover, "Pawn")
    /\ rank(last_move.to) = home_rank(other(mover))

\* C23: after a successful pawn move to the far rank with promotion kind k,
\* one of Rook, Knight, Bishop and Queen, the destination holds a piece of
\* kind k and the mover's colour and no pawn, and the origin is empty.
C23_PromotionResult ==
    (called /\ result.tag = "Ok" /\ pawn_to_far_rank) =>
        /\ last_move.promotion \in PromotionKinds
        /\ board.tiles[last_move.to] = Piece(mover, last_move.promotion)
        /\ board.tiles[last_move.to] # Piece(mover, "Pawn")
        /\ board.tiles[last_move.from] = None

\* A pawn took a piece on the far rank and a knight of its colour stands there.
C23_Witness ==
    /\ called
    /\ result.tag = "Ok"
    /\ pawn_to_far_rank
    /\ prev.tiles[last_move.to] # None
    /\ last_move.promotion = "Knight"
    /\ board.tiles[last_move.to] = Piece(mover, "Knight")

\* The corner of the side the king of the last call moved towards.
castling_corner ==
    new_unchecked(IF file(last_move.to) > file(last_move.from) THEN 7 ELSE 0,
                  rank(last_move.to))

occupied(b) == {p \in Positions : b.tiles[p] # None}

\* The last call moved a pawn diagonally onto the en-passant target and
\* returned Ok.
took_en_passant ==
    /\ called
    /\ result.tag = "Ok"
    /\ moved_piece.kind = "Pawn"
    /\ last_move.to = prev.en_passant_square
    /\ file(last_move.to) # file(last_move.from)

\* The square of the pawn taken: the file of the target, the rank the
\* capturing pawn started from.
taken_square == new_unchecked(file(last_move.to), rank(last_move.from))

\* C25: when a pawn moves diagonally onto the en-passant target, the
\* destination was empty and the piece removed is the opponent's pawn on the
\* file of the target and the rank the capturing pawn started from, the pawn
\* one rank behind the target; the halfmove counter is reset as for a
\* capture and exactly one piece leaves the board.
C25_EnPassantCapture ==
    took_en_passant =>
        /\ prev.tiles[last_move.to] = None
        /\ prev.tiles[taken_square] = Piece(other(mover), "Pawn")
        /\ rank(taken_square) = rank(last_move.to) + backwards(mover)
        /\ board.tiles[taken_square] = None
        /\ board.tiles[last_move.to] = Piece(mover, "Pawn")
        /\ occupied(board) = (occupied(prev) \ {last_move.from, taken_square})
                                 \cup {last_move.to}
        /\ Cardinality(occupied(board)) = Cardinality(occupied(prev)) - 1
        /\ board.halfmove_counter = 0

\* Black took en passant on e3: the white pawn on e4 is gone.
C25_Witness ==
    /\ took_en_passant
    /\ mover = "Black"
    /\ last_move.to = Position_from_str(<<"e", "3">>)
    /\ prev.tiles[Position_from_str(<<"e", "4">>)] = Piece("White", "Pawn")
    /\ board.tiles[Position_from_str(<<"e", "4">>)] = None

(***************************************************************************)
(* The turn and the counters.                                              *)
(***************************************************************************)
\* The colour to move after the last call, by what the call returned.
turn_as_stated ==
    /\ result.tag = "Ok" => board.next_to_move = other(mover)
    /\ result.tag = "Err" => board.next_to_move = prev.next_to_move

\* The statement of C26 read over the integers: the move number after a
\* move by Black is one more than before, whatever it was.
C26_MoveNumberAsStated ==
    called =>
        /\ turn_as_stated
        /\ result.tag = "Ok" =>
               board.move_number =
                   prev.move_number + (IF mover = "Black" THEN 1 ELSE 0)

\* C26: a call of make_move that returns Ok hands the move to the other
\* colour and a call that returns an error leaves the colour to move as it
\* was; the move number is the same after a move by White, and after a move
\* by Black it is one more than before, or 0 when it was 65535.
C26_TurnAlternates ==
    called =>
        /\ turn_as_stated
        /\ result.tag = "Ok" =>
               board.move_number =
                   IF mover = "Black" THEN wrapping_add_one(prev.move_number)
                   ELSE prev.move_number

\* Black has moved and the move number went up by one.
C26_Witness ==
    /\ called
    /\ result.tag = "Ok"
    /\ mover = "Black"
    /\ board.next_to_move = "White"
    /\ board.move_number = prev.move_number + 1

\* The last call took a piece: the one on its destination, or the pawn
\* passed en passant.
captured_last == prev.tiles[last_move.to] # None \/ took_en_passant

\* The statement of C27 read over the integers: the counter after a move
\* that neither takes nor moves a pawn is one more than before, whatever it
\* was.
C27_HalfmoveAsStated ==
    called /\ result.tag = "Ok" =>
        board.halfmove_counter =
            IF captured_last \/ moved_piece.kind = "Pawn" THEN 0
            ELSE prev.halfmove_counter + 1

\* C27: after a call of make_move that returns Ok the halfmove counter is 0
\* when the move took a piece or moved a pawn, and otherwise one more than
\* before, or 0 when it was 65535.
C27_HalfmoveCounter ==
    called /\ result.tag = "Ok" =>
        board.halfmove_counter =
            IF captured_last \/ moved_piece.kind = "Pawn" THEN 0
            ELSE wrapping_add_one(prev.halfmove_counter)

\* A piece other than a pawn has taken a piece and the counter, which was
\* running, is back at 0.
C27_Witness ==
    /\ called
    /\ result.tag = "Ok"
    /\ moved_piece.kind # "Pawn"
    /\ prev.tiles[last_move.to] # None
    /\ prev.halfmove_counter > 0
    /\ board.halfmove_counter = 0

(***************************************************************************)
(* Lines of attack.                                                        *)
(***************************************************************************)
Sliders == {"Rook", "Bishop", "Queen"}

\* The squares strictly between two squares of one rank, file or diagonal;
\* none when the two are not on one line.
between(p, t) ==
    LET df == file(t) - file(p)
        dr == rank(t) - rank(p)
    IN IF p = t \/ ~(df = 0 \/ dr = 0 \/ abs(df) = abs(dr)) THEN {}
       ELSE {q \in Positions :
                /\ q # p
                /\ q # t
                /\ (file(q) - file(p)) * dr = (rank(q) - rank(p)) * df
                /\ (file(q) - file(p)) * (file(q) - file(t)) <= 0
                /\ (rank(q) - rank(p)) * (rank(q) - rank(t)) <= 0}

\* The square t lies on a line the kind moves along from p.
on_line(kind, p, t) ==
    LET df == file(t) - file(p)
        dr == rank(t) - rank(p)
    IN /\ p # t
       /\ \/ kind \in {"Rook", "Queen"} /\ (df = 0 \/ dr = 0)
          \/ kind \in {"Bishop", "Queen"} /\ abs(df) = abs(dr)

\* The squares a king on k may step to, castling apart.
steps(k) ==
    {t \in Positions : t # k /\ abs(file(t) - file(k)) <= 1 /\ abs(rank(t) - rank(k)) <= 1}

\* On the board b no piece of the other colour reaches the square to once
\* the king has left k for it: each of its rooks, bishops and queens is off
\* the lines through to or has a piece in between, and none of its pawns,
\* knights and king attacks to.
out_of_reach(b, k, to) ==
    \A p \in Positions \ {to} :
        b.tiles[p].color = other(b.tiles[k].color) =>
            IF b.tiles[p].kind \in Sliders
            THEN \/ ~on_line(b.tiles[p].kind, p, to)
                 \/ \E q \in between(p, to) \ {k} : b.tiles[q] # None
            ELSE ~attacks(b.tiles[p], p, to, {}, {}, b)

\* The squares the threat oracle is asked to ignore: none, or the square the
\* king of the side to move is leaving.
IgnoreInputs(b) ==
    {{}} \cup {{k} : k \in {get_king_position(b, b.next_to_move)} \ {NoPosition}}

\* C28: a rook, bishop or queen attacks a square only if every square
\* strictly between the two is empty or ignored; and the king of the side to
\* move may step onto every square that is empty or holds an opponent and
\* that no piece of the other colour reaches, the squares behind a piece on
\* an enemy queen's line among them. A call that returned an error left the
\* board of the state before it.
C28_BlockedLines ==
    result.tag # "Err" =>
        /\ \A ignore \in IgnoreInputs(board) :
               \A p \in Positions :
                   board.tiles[p].kind \in Sliders =>
                       \A t \in Positions :
                           attacks(board.tiles[p], p, t, ignore, {}, board) =>
                               \A q \in between(p, t) :
                                   board.tiles[q] = None \/ q \in ignore
        /\ LET k == get_king_position(board, board.next_to_move) IN
           k # NoPosition =>
               \A to \in steps(k) :
                   /\ empty_or_opponent(board, to, board.next_to_move)
                   /\ out_of_reach(board, k, to)
                   => yields(board, k, to)

\* The king has stepped onto a line of an enemy queen, behind a piece of the
\* queen's own colour.
C28_Witness ==
    /\ called
    /\ result.tag = "Ok"
    /\ moved_piece.kind = "King"
    /\ last_move.to \in steps(last_move.from)
    /\ \E p \in Positions :
           /\ prev.tiles[p] = Piece(other(mover), "Queen")
           /\ on_line("Queen", p, last_move.to)
           /\ \E q \in between(p, last_move.to) : prev.tiles[q].color = other(mover)

(***************************************************************************)
(* The placement field of to_fen.                                          *)
(***************************************************************************)
\* The first of the fields to_fen writes.
placement(b) == split_ascii_whitespace(to_fen(b))[1]

\* The texts between the "/" of a placement field, an empty text before,
\* between or after them included.
groups(text) ==
    LET slashes  == {i \in 1..Len(text) : text[i] = "/"}
        n        == Cardinality(slashes)
        bound(k) == IF k = 0 THEN 0
                    ELSE IF k = n + 1 THEN Len(text) + 1
                    ELSE CHOOSE i \in slashes : Cardinality({j \in slashes : j < i}) = k - 1
    IN [k \in 1..(n + 1) |-> SubSeq(text, bound(k - 1) + 1, bound(k) - 1)]

\* The files a group accounts for: a digit for as many as it says, a letter
\* for one.
RECURSIVE files_of(_, _)
files_of(group, i) ==
    IF i > Len(group) THEN 0
    ELSE (IF is_decimal_digit(group[i]) THEN decimal_value(group[i]) ELSE 1)
         + files_of(group, i + 1)

\* C29: the placement field to_fen writes for the board has 8 groups
\* between its "/", and the digits and letters of each group account for
\* the 8 files of its rank.
C29_PlacementComplete ==
    LET ranks == groups(placement(board)) IN
    /\ Len(ranks) = 8
    /\ \A k \in 1..8 : files_of(ranks[k], 1) = 8

(***************************************************************************)
(* The castling rights and the pieces they are about.                      *)
(***************************************************************************)
\* Every castling right that is set on b has its king on file 4 of the home
\* rank and its rook on the corner of that rank.
rights_backed(b) ==
    \A color \in Colors :
        LET king_home == b.tiles[new_unchecked(4, home_rank(color))] = Piece(color, "King")
            rook_on(f) == b.tiles[new_unchecked(f, home_rank(color))] = Piece(color, "Rook")
        IN /\ can_castle_kingside(b, color) => king_home /\ rook_on(7)
           /\ can_castle_queenside(b, color) => king_home /\ rook_on(0)

\* No right that was cleared before the last call is set after it.
rights_stay_cleared ==
    \A color \in Colors :
        /\ can_castle_kingside(board, color) => can_castle_kingside(prev, color)
        /\ can_castle_queenside(board, color) => can_castle_queenside(prev, color)

\* C30: a call of make_move on a board whose castling rights all have their
\* king and rook at home leaves such a board, and sets no right that was
\* cleared.
C30_CastlingRightsBacked ==
    /\ rights_backed(prev) => rights_backed(board)
    /\ rights_stay_cleared

(***************************************************************************)
(* Castling rights lost for cause.                                         *)
(***************************************************************************)
\* The corner of the colour on a side: file 7 of its home rank for the
\* kingside, file 0 for the queenside.
corner(color, side) ==
    new_unchecked(IF side = "kingside" THEN 7 ELSE 0, home_rank(color))

right(b, color, side) ==
    IF side = "kingside" THEN can_castle_kingside(b, color)
    ELSE can_castle_queenside(b, color)

\* The last call gave cause to clear the right: it moved the colour's king,
\* moved the colour's rook off the corner of the side, or landed on that
\* corner.
cause(color, side) ==
    \/ moved_piece = Piece(color, "King")
    \/ moved_piece = Piece(color, "Rook") /\ last_move.from = corner(color, side)
    \/ last_move.to = corner(color, side)

\* C31: a right that was set before a call of make_move that returned Ok is
\* still set after it unless the call moved the colour's king, moved the
\* rook on the corner of that side, or landed on that corner.
C31_RightsLostForCause ==
    called /\ result.tag = "Ok" =>
        \A color \in Colors : \A side \in {"kingside", "queenside"} :
            right(prev, color, side) /\ ~right(board, color, side)
                => cause(color, side)

(***************************************************************************)
(* Calls on a board whose game has ended.                                  *)
(***************************************************************************)
\* The game on the board the last call was made on had ended without a
\* move left: the side to move, its king on the board, had no destination.
ended_without_moves ==
    /\ called
    /\ get_king_position(prev, prev.next_to_move) # NoPosition
    /\ ~has_moves(prev)

ValidationErrors == {Err("NoPieceToMove"), Err("OtherPlayersTurn"), Err("IllegalMove")}

\* C32: a call of make_move on a board on which the side to move has no
\* legal move, the board make_move leaves when it returns Checkmate or Draw
\* by stalemate, fails with NoPieceToMove, OtherPlayersTurn or IllegalMove
\* and leaves the board as it was: a call answered otherwise was made on a
\* board with a legal move.
C32_EndedGameRefuses ==
    (/\ called
     /\ get_king_position(prev, prev.next_to_move) # NoPosition
     /\ ~(result \in ValidationErrors /\ board = prev))
        => has_moves(prev)

\* A call on a board of a checkmated side was refused as illegal.
C32_Witness ==
    /\ result = Err("IllegalMove")
    /\ prev.tiles[last_move.from].color = prev.next_to_move
    /\ is_in_check(prev)
    /\ ended_without_moves

\* C33: a call of make_move on a board whose halfmove counter is 50, the
\* board make_move leaves when it returns the 50-move Draw, does not return
\* Normal; and a call on a board whose counter is at most 50 leaves a board
\* whose counter is at most 50.
C33_FiftyMoveTerminal ==
    called =>
        /\ prev.halfmove_counter = 50 => result # Ok("Normal")
        /\ prev.halfmove_counter <= 50 => board.halfmove_counter <= 50

\* No pawn stands on rank index 0 or rank index 7 of b.
back_ranks_pawnless(b) ==
    \A f \in 0..7 : \A rk \in {0, 7} : b.tiles[new_unchecked(f, rk)].kind # "Pawn"

\* C34: a call of make_move, whatever it returns, on a board with no pawn
\* on rank index 0 or 7 leaves a board with no pawn on rank index 0 or 7.
C34_NoPawnOnBackRank ==
    back_ranks_pawnless(prev) => back_ranks_pawnless(board)

adjacent(p, q) ==
    /\ p # q
    /\ abs(file(p) - file(q)) <= 1
    /\ abs(rank(p) - rank(q)) <= 1

\* Each colour has one king on b, and the two do not touch.
kings_apart(b) ==
    /\ \A color \in Colors : Cardinality({p \in Positions : b.tiles[p] = Piece(color, "King")}) = 1
    /\ ~adjacent(get_king_position(b, "White"), get_king_position(b, "Black"))

\* C36: on a board whose kings do not touch, the king generator yields no
\* destination next to the other king, and a successful make_move leaves a
\* board whose kings do not touch.
C36_KingsNeverTouch ==
    (result.tag # "Err" /\ kings_apart(prev)) =>
        /\ \A color \in Colors : \A to \in Positions :
               adjacent(to, get_king_position(prev, other(color)))
                   => ~king_yields(prev, get_king_position(prev, color), to)
        /\ result.tag = "Ok" => kings_apart(board)

\* A king has moved while a square next to it touched the other king.
C36_Witness ==
    /\ result.tag = "Ok"
    /\ kings_apart(prev)
    /\ prev.tiles[last_move.from].kind = "King"
    /\ \E p \in Positions :
           /\ adjacent(p, last_move.from)
           /\ adjacent(p, get_king_position(prev, other(prev.next_to_move)))
           /\ empty_or_opponent(prev, p, prev.next_to_move)

(***************************************************************************)
(* The promotion asked by the graphical front end.                         *)
(***************************************************************************)
\* C37: in the graphical front end no system panics: with the promotion
\* asked and a kind picked, neither the assertion on the piece's colour nor
\* the unwrap of what make_move returns fails.
C37_PromotionNeverPanics == result # Panicked

\* C37, the assertion alone: while the promotion of a move is asked, the
\* piece on the square the move starts from belongs to the side to move.
C37_AssertionHolds ==
    state.tag = "PromotionAsked" =>
        board.tiles[state.from].color = board.next_to_move

\* A promotion was asked, a kind was picked and the move was made.
C37_Witness ==
    /\ result.tag = "Ok"
    /\ last_move.promotion \in PawnPromotionOptions
    /\ prev.tiles[last_move.from].kind = "Pawn"
    /\ state = UIDefault

(***************************************************************************)
(* The two generators of the king.                                         *)
(***************************************************************************)
\* The destinations the iterator king::Moves yields.
king_moves(b, from) == {to \in Positions : king_yields(b, from, to)}

\* The deprecated generator and the iterator give the king on from the
\* same destinations.
generators_agree(b, from) ==
    /\ ~king_append_panics(b, from)
    /\ king_append_moves(b, from) = king_moves(b, from)

\* C38: for every king on the board, the deprecated king::append_moves
\* pushes the destinations the iterator king::Moves yields, the castling
\* destinations included.
C38_KingGeneratorsAgree ==
    result.tag # "Err" =>
        \A from \in Positions :
            board.tiles[from].kind = "King" => generators_agree(board, from)

\* C38 without castling: apart from the two castling destinations the two
\* generators give every king the same destinations.
C38_KingStepsAgree ==
    result.tag # "Err" =>
        \A from \in Positions :
            (board.tiles[from].kind = "King" /\ ~king_append_panics(board, from)) =>
                LET castles == {to \in Positions : abs(file(to) - file(from)) = 2}
                IN king_append_moves(board, from) \ castles = king_moves(board, from) \ castles

\* A king has stepped to a square both generators give it.
C38_Witness ==
    /\ result.tag = "Ok"
    /\ prev.tiles[last_move.from].kind = "King"
    /\ abs(file(last_move.to) - file(last_move.from)) < 2
    /\ ~king_append_panics(prev, last_move.from)
    /\ last_move.to \in king_append_moves(prev, last_move.from)
    /\ last_move.to \in king_moves(prev, last_move.from)


=============================================================================
